---- MODULE Spec2Model ----
(***************************************************************************)
(* OCS provisioning MCP server: the HTTP client wrapper                    *)
(* (src/client.py, OCSClient.request) and the tool functions that call it  *)
(* (src/tools/subscriber.py, subscription.py, balance.py, usage.py and     *)
(* offers.py), as a state machine.                                         *)
(*                                                                         *)
(* An invocation is one run of a tool function.  It suspends only at an    *)
(* `await` of the wrapper; the code between two awaits is one step.        *)
(***************************************************************************)
EXTENDS Integers, Sequences, FiniteSets, TLC

VARIABLES
    api_key,   \* settings.ocs_api_key, read once when the client is built
    active,    \* the invocation slots the host may run
    pc,        \* per invocation: "idle", "await_request", "await_lookup", "await_post", "done"
    tool,      \* per invocation: the tool function running
    args,      \* per invocation: the arguments it was called with
    cs,        \* per invocation: create_subscriber's local variables
    call,      \* per invocation: the arguments of the OCSClient.request call in progress
    req,       \* per invocation: the HTTP request handed to httpx by that call
    resp,      \* per invocation: what httpx produced for it (a response or an exception)
    outcome,   \* per invocation: what OCSClient.request produced (return or raise)
    result,    \* per invocation: what the tool function produced (return or raise)
    sent,      \* per invocation: the requests issued so far, counted by kind
    probes     \* per invocation: what each lookup probe reported, in order

vars == <<api_key, active, pc, tool, args, cs, call, req, resp, outcome, result, sent, probes>>

Procs == {1, 2}

----------------------------------------------------------------------------
(* Python values, tagged with their type.                                  *)

PyNone == [type |-> "NoneType"]
PyStr(s) == [type |-> "str", val |-> s]
PyInt(n) == [type |-> "int", val |-> n]
PyDict(d) == [type |-> "dict", val |-> d]
PyList(l) == [type |-> "list", val |-> l]
\* a string of decimal digits, kept as the sequence of its digits
PyDigits(d) == [type |-> "str", digits |-> d]

\* dict.get(key, default)
DictGet(d, key, default) == IF key \in DOMAIN d.val THEN d.val[key] ELSE default

\* `not v` for an Optional[str]
Falsy(v) == v = PyNone \/ v = PyStr("")

\* the two ways a coroutine ends
Return(v) == [kind |-> "return", value |-> v]
Raise(e) == [kind |-> "raise", exc |-> e]
NoOutcome == [kind |-> "none"]

----------------------------------------------------------------------------
(* Exceptions.                                                             *)

OCSAPIError(status_code, message, details) ==
    [class |-> "OCSAPIError", status_code |-> status_code, message |-> message,
     details |-> details]

\* any other exception: its class and str(e)
Error(class, text) == [class |-> class, text |-> text]

\* httpx.RequestError and its subclasses
RequestErrorClasses == {"ConnectError", "ConnectTimeout", "ReadTimeout"}
IsRequestError(e) == e.class \in RequestErrorClasses

\* BaseException subclasses that are not Exception subclasses
BaseOnlyClasses == {"CancelledError"}
IsException(e) == e.class \notin BaseOnlyClasses

----------------------------------------------------------------------------
(* The upstream side: what `await self.client.request(...)` can produce.   *)

Statuses == {200, 204, 302, 404, 500}

\* httpx's Response.reason_phrase
ReasonPhrase(status) ==
    CASE status = 200 -> "OK"
      [] status = 204 -> "No Content"
      [] status = 302 -> "Found"
      [] status = 404 -> "Not Found"
      [] status = 500 -> "Internal Server Error"
      [] OTHER -> ""

\* raw response bodies (Response.text)
BodyTexts ==
    { "",
      "upstream unavailable",
      "{\"message\": \"Subscriber not found\"}",
      "{\"message\": \"Invalid request\", \"details\": {\"field\": \"msisdn\"}}",
      "{\"code\": 17}",
      "{\"ResultCode\": \"Entity not found\"}",
      "{\"subscriberId\": \"sub-1\"}",
      "[\"sub-1\"]",
      "null" }

\* Response.json(): the parsed body, or a JSONDecodeError
Parsed(v) == [ok |-> TRUE, value |-> v]
NotJson == [ok |-> FALSE, exc |-> Error("JSONDecodeError", "Expecting value: line 1 column 1 (char 0)")]
Json(text) ==
    CASE text = "{\"message\": \"Subscriber not found\"}" ->
            Parsed(PyDict([message |-> PyStr("Subscriber not found")]))
      [] text = "{\"message\": \"Invalid request\", \"details\": {\"field\": \"msisdn\"}}" ->
            Parsed(PyDict([message |-> PyStr("Invalid request"),
                           details |-> PyDict([field |-> PyStr("msisdn")])]))
      [] text = "{\"code\": 17}" ->
            Parsed(PyDict([code |-> PyInt(17)]))
      [] text = "{\"ResultCode\": \"Entity not found\"}" ->
            Parsed(PyDict([ResultCode |-> PyStr("Entity not found")]))
      [] text = "{\"subscriberId\": \"sub-1\"}" ->
            Parsed(PyDict([subscriberId |-> PyStr("sub-1")]))
      [] text = "[\"sub-1\"]" ->
            Parsed(PyList(<<PyStr("sub-1")>>))
      [] text = "null" ->
            Parsed(PyNone)
      [] OTHER -> NotJson

HttpResponse(status, text) ==
    [kind |-> "response", status_code |-> status,
     reason_phrase |-> ReasonPhrase(status), text |-> text]
Raised(e) == [kind |-> "raised", exc |-> e]
NoResponse == [kind |-> "none"]

\* exceptions httpx raises instead of producing a response
ClientExceptions ==
    { Error("ConnectError", "All connection attempts failed"),
      Error("ReadTimeout", "The read operation timed out"),
      Error("InvalidURL", "Invalid non-printable ASCII character in URL"),
      Error("CancelledError", "") }

----------------------------------------------------------------------------
(* OCSClient: the wrapper.                                                 *)

\* values str(uuid.uuid4()) can take
UUIDs == {"uuid-1", "uuid-2"}

\* the default headers of the httpx.AsyncClient
ClientHeaders(key) ==
    ("Content-Type" :> "application/json") @@ ("X-API-Key" :> key)
        @@ ("Accept" :> "application/json")

\* variant: the id is replaced only when it is None (`is None` for `not`)
TransactionIdOnlyNone(transaction_id, fresh) ==
    IF transaction_id = PyNone THEN PyStr(fresh) ELSE transaction_id

\* variant: a new id is generated for every call
TransactionIdAlwaysFresh(transaction_id, fresh) == PyStr(fresh)

\* transaction_id after `if not transaction_id: transaction_id = str(uuid.uuid4())`
TransactionId(transaction_id, fresh) ==
    IF Falsy(transaction_id) THEN PyStr(fresh) ELSE transaction_id

\* the per-request headers: kwargs.pop("headers", {}) plus the transaction id
RequestHeaders(transaction_id, fresh) ==
    "X-Transaction-ID" :> TransactionId(transaction_id, fresh).val

\* the request httpx sends: per-request headers merged over the client's
Outgoing(key, c, fresh) ==
    [method |-> c.method, endpoint |-> c.endpoint,
     headers |-> RequestHeaders(c.transaction_id, fresh) @@ ClientHeaders(key),
     params |-> c.params, json |-> c.json]

\* variant: the fallback is always the raw text, never the reason phrase
ErrorMessageRawText(r) ==
    LET body == Json(r.text) IN
    IF body.ok /\ body.value.type = "dict" /\ "message" \in DOMAIN body.value.val
    THEN body.value.val["message"]
    ELSE PyStr(r.text)

\* message of the error raised for a status >= 400
ErrorMessage(r) ==
    LET body == Json(r.text) IN
    IF body.ok /\ body.value.type = "dict"
    THEN DictGet(body.value, "message", PyStr(r.reason_phrase))
    ELSE IF r.text # "" THEN PyStr(r.text) ELSE PyStr(r.reason_phrase)

\* details of the error raised for a status >= 400
ErrorDetails(r) ==
    LET body == Json(r.text) IN
    IF body.ok /\ body.value.type = "dict"
    THEN DictGet(body.value, "details", PyNone)
    ELSE PyNone

\* variant: every status from 300 up is an error
TryBodyRedirectIsError(r) ==
    IF r.kind = "raised" THEN Raise(r.exc)
    ELSE IF r.status_code >= 300
    THEN Raise(OCSAPIError(r.status_code, ErrorMessage(r), ErrorDetails(r)))
    ELSE IF r.status_code = 204 THEN Return(PyNone)
    ELSE IF Json(r.text).ok THEN Return(Json(r.text).value)
    ELSE Raise(Json(r.text).exc)

\* variant: the body is parsed before the status is compared with 204
TryBodyParseFirst(r) ==
    IF r.kind = "raised" THEN Raise(r.exc)
    ELSE IF r.status_code >= 400
    THEN Raise(OCSAPIError(r.status_code, ErrorMessage(r), ErrorDetails(r)))
    ELSE IF ~Json(r.text).ok THEN Raise(Json(r.text).exc)
    ELSE IF r.status_code = 204 THEN Return(PyNone)
    ELSE Return(Json(r.text).value)

\* the try block of request(), from the awaited result on
TryBody(r) ==
    IF r.kind = "raised" THEN Raise(r.exc)
    ELSE IF r.status_code >= 400
    THEN Raise(OCSAPIError(r.status_code, ErrorMessage(r), ErrorDetails(r)))
    ELSE IF r.status_code = 204 THEN Return(PyNone)
    ELSE IF Json(r.text).ok THEN Return(Json(r.text).value)
    ELSE Raise(Json(r.text).exc)

\* variant: no clause for httpx.RequestError; the catch-all takes it
ExceptClausesNoRequestError(o) ==
    IF o.kind = "return" THEN o
    ELSE IF IsException(o.exc)
    THEN IF o.exc.class = "OCSAPIError" THEN o
         ELSE Raise(OCSAPIError(500, PyStr("Internal Client Error: " \o o.exc.text), PyNone))
    ELSE o

\* variant: no catch-all clause; only httpx.RequestError is translated
ExceptClausesNoCatchAll(o) ==
    IF o.kind = "return" THEN o
    ELSE IF IsRequestError(o.exc)
    THEN Raise(OCSAPIError(503, PyStr("Service Unavailable: " \o o.exc.text), PyNone))
    ELSE o

\* variant: no clause for OCSAPIError; the catch-all wraps it again
ExceptClausesRewraps(o) ==
    IF o.kind = "return" THEN o
    ELSE IF IsRequestError(o.exc)
    THEN Raise(OCSAPIError(503, PyStr("Service Unavailable: " \o o.exc.text), PyNone))
    ELSE IF IsException(o.exc)
    THEN IF o.exc.class = "OCSAPIError"
         THEN Raise(OCSAPIError(500, PyStr("Internal Client Error: " \o o.exc.message.val),
                                PyNone))
         ELSE Raise(OCSAPIError(500, PyStr("Internal Client Error: " \o o.exc.text), PyNone))
    ELSE o

\* the except clauses of request()
ExceptClauses(o) ==
    IF o.kind = "return" THEN o
    ELSE IF IsRequestError(o.exc)
    THEN Raise(OCSAPIError(503, PyStr("Service Unavailable: " \o o.exc.text), PyNone))
    ELSE IF IsException(o.exc)
    THEN IF o.exc.class = "OCSAPIError" THEN o
         ELSE Raise(OCSAPIError(500, PyStr("Internal Client Error: " \o o.exc.text), PyNone))
    ELSE o

\* what OCSClient.request produces, given what httpx produced
RequestOutcome(r) == ExceptClauses(TryBody(r))

----------------------------------------------------------------------------
(* create_subscriber: the pure parts.                                      *)

max_attempts == 10

\* random.randint(RandomLow, RandomHigh), sampled at both ends of the range
RandomLow == 1000000
RandomHigh == 9999999
ExtraRandom == 1
RandomNumbers == {RandomLow + i : i \in 0..ExtraRandom} \cup {RandomHigh}

\* datetime.now().day
Days == {1, 28, 29, 31}

SubscriberTypes == {"PREPAID", "POSTPAID", "postpaid"}

\* the decimal digits of n >= 0, most significant first
RECURSIVE DecDigits(_)
DecDigits(n) == IF n < 10 THEN <<n>> ELSE Append(DecDigits(n \div 10), n % 10)

\* left-pad with zeros to at least w digits
RECURSIVE ZeroPad(_, _)
ZeroPad(d, w) == IF Len(d) >= w THEN d ELSE ZeroPad(<<0>> \o d, w)

\* f"{n:07d}"
Format07d(n) == ZeroPad(DecDigits(n), 7)

\* int(digits)
RECURSIVE ParseInt(_)
ParseInt(d) ==
    IF Len(d) = 0 THEN 0 ELSE 10 * ParseInt(SubSeq(d, 1, Len(d) - 1)) + d[Len(d)]

\* s[-7:]
Last7(d) == SubSeq(d, IF Len(d) > 7 THEN Len(d) - 6 ELSE 1, Len(d))

\* f"43660{random_number:07d}"
CandidateMsisdn(random_number) == PyDigits(<<4, 3, 6, 6, 0>> \o Format07d(random_number))

\* variant: the number is taken from the last six digits (msisdn[-6:])
ImsiLast6(msisdn) ==
    PyDigits(<<2, 3, 2, 0, 5, 6, 6, 0>>
             \o Format07d(ParseInt(SubSeq(msisdn.digits, Len(msisdn.digits) - 5,
                                          Len(msisdn.digits)))))

\* f"23205660{random_number:07d}" with random_number = int(msisdn[-7:])
Imsi(msisdn) == PyDigits(<<2, 3, 2, 0, 5, 6, 6, 0>> \o Format07d(ParseInt(Last7(msisdn.digits))))

\* variant: the day is capped after the 29th (current_day > 29)
BillcycleDayAfter29(current_day) == IF current_day > 29 THEN 1 ELSE current_day

\* billcycle_day = 1 if current_day > 28 else current_day
BillcycleDay(current_day) == IF current_day > 28 THEN 1 ELSE current_day

\* the "billing" entry of subscriber_data
Billing(subscriber_type, current_day) ==
    IF subscriber_type = "POSTPAID"
    THEN PyDict([billingAddress |-> PyStr("address"),
                 billcycleDay |-> PyInt(BillcycleDay(current_day)),
                 billingCycle |-> PyStr("MONTHLY")])
    ELSE PyDict([billingAddress |-> PyStr("address")])

\* subscriber_data as create_subscriber builds it
SubscriberData(msisdn, subscriber_type, current_day) ==
    [msisdn |-> msisdn,
     imsi |-> Imsi(msisdn),
     subscriberType |-> PyStr(subscriber_type),
     languageId |-> PyStr("EN"),
     carrierId |-> PyStr("MAGENTA"),
     currentState |-> [type |-> "SubscriberState", name |-> "ACTIVE", val |-> "active"],
     personalInfo |-> PyDict([email |-> PyStr("email")]),
     services |-> PyDict([voice |-> PyStr("True")]),
     billing |-> Billing(subscriber_type, current_day)]

\* the fields of the Subscriber model that have no default
SubscriberRequired == {"subscriberId"}

\* re.match("^[0-9]{lo,hi}$", s)
MatchesDigits(s, lo, hi) ==
    /\ "digits" \in DOMAIN s
    /\ Len(s.digits) >= lo /\ Len(s.digits) <= hi
    /\ \A i \in 1..Len(s.digits) : s.digits[i] \in 0..9

\* Subscriber(**data) validates: the required fields and the two patterns
ValidSubscriber(data) ==
    /\ SubscriberRequired \subseteq DOMAIN data
    /\ "msisdn" \in DOMAIN data => MatchesDigits(data.msisdn, 11, 15)
    /\ "imsi" \in DOMAIN data => MatchesDigits(data.imsi, 12, 15)

\* model.model_dump(exclude_none=True, mode='json'): None fields dropped, enums by value
Payload(data) ==
    LET kept == {k \in DOMAIN data : data[k] # PyNone} IN
    [k \in kept |-> IF k = "currentState" THEN PyStr(data[k].val) ELSE data[k]]

\* variant: the key is misspelt
IsNotFoundWrongKey(lookup_result) ==
    DictGet(lookup_result, "resultCode", PyNone) = PyStr("Entity not found")

\* lookup_result.get("ResultCode") == "Entity not found"
IsNotFound(lookup_result) ==
    DictGet(lookup_result, "ResultCode", PyNone) = PyStr("Entity not found")

\* variant: the loop runs once more (range(max_attempts + 1))
MoreAttemptsOffByOne(attempt) == attempt < max_attempts

\* the for loop has another iteration after the one numbered attempt
MoreAttempts(attempt) == attempt + 1 < max_attempts

\* ocs_client.get("/subscribers/lookup", transaction_id=..., params={"msisdn": ...})
LookupCall(transaction_id, candidate_msisdn) ==
    [method |-> "GET", endpoint |-> "/subscribers/lookup",
     transaction_id |-> transaction_id,
     params |-> PyDict([msisdn |-> candidate_msisdn]), json |-> PyNone]

\* ocs_client.post("/subscribers", transaction_id=..., json=payload)
CreateCall(transaction_id, payload) ==
    [method |-> "POST", endpoint |-> "/subscribers",
     transaction_id |-> transaction_id,
     params |-> PyNone, json |-> PyDict(payload)]

\* what a lookup probe reported, read off the wrapper's outcome
Verdict(o) ==
    IF o.kind = "return" /\ o.value.type = "dict"
    THEN IF "ResultCode" \in DOMAIN o.value.val
            /\ o.value.val["ResultCode"] = PyStr("Entity not found")
         THEN "not_found" ELSE "exists"
    ELSE "error"

----------------------------------------------------------------------------
(* The single-request tool functions: the pure parts.                      *)

\* sep.join(items)
RECURSIVE Join(_, _)
Join(items, sep) ==
    IF Len(items) = 0 THEN ""
    ELSE IF Len(items) = 1 THEN items[1]
    ELSE items[1] \o sep \o Join(Tail(items), sep)

\* x in items
InList(x, items) == \E i \in 1..Len(items) : items[i] = x

SubscriberIds == {"sub-1", "sub-2"}
SubscriptionIds == {"s-1", "s-2"}

\* change_subscriber_state -------------------------------------------------

valid_states == <<"ACTIVE", "SUSPENDED", "DEACTIVATED", "TERMINATED", "PRE_PROVISIONED">>

\* the values of the SubscriberState enum
SubscriberStateValues ==
    {"pre-provisioned", "active", "suspended", "deactivated", "terminated"}

\* state arguments: member names, enum values, and strings that are neither
States == {"ACTIVE", "PRE_PROVISIONED", "active", "pre-provisioned", "Active", "BOGUS", ""}

\* variant: the values of the enum are accepted as well as its member names
StateIsValidNameOrValue(state) ==
    InList(state, valid_states) \/ state \in SubscriberStateValues

\* `state in valid_states`
StateIsValid(state) == InList(state, valid_states)

\* the dict returned for an invalid state
InvalidState(state) ==
    Return(PyDict([error |-> PyStr("Invalid state '" \o state \o "'. Must be one of: "
                                   \o Join(valid_states, ", "))]))

\* variant: the state is put on the subscriber's /status
StateCallStatus(subscriber_id, state, transaction_id) ==
    [method |-> "PUT", endpoint |-> "/subscribers/" \o subscriber_id \o "/status",
     transaction_id |-> transaction_id,
     params |-> PyDict([state |-> PyStr(state)]), json |-> PyNone]

\* ocs_client.request(method="PUT", endpoint=f"/subscribers/{subscriber_id}/state", ...)
StateCall(subscriber_id, state, transaction_id) ==
    [method |-> "PUT", endpoint |-> "/subscribers/" \o subscriber_id \o "/state",
     transaction_id |-> transaction_id,
     params |-> PyDict([state |-> PyStr(state)]), json |-> PyNone]

\* change_subscription_state -----------------------------------------------

valid_actions == <<"active", "suspend", "cancelled", "renew">>

\* action arguments, in several spellings
Actions == {"active", "ACTIVE", "Suspend", "cancelled", "renew", "cancel", "activate", ""}

\* str.lower() on the action arguments
Lower(s) ==
    CASE s = "ACTIVE" -> "active"
      [] s = "Suspend" -> "suspend"
      [] OTHER -> s

\* `action.lower() in valid_actions`
ActionIsValid(action) == InList(Lower(action), valid_actions)

\* variant: an invalid action fails the call
InvalidActionRaises(action) ==
    Raise(Error("ValueError", "Invalid action '" \o action \o "'"))

\* the dict returned for an invalid action
InvalidAction(action) ==
    Return(PyDict([error |-> PyStr("Invalid action '" \o action \o "'. Must be one of: "
                                   \o Join(valid_actions, ", "))]))

\* variant: the action's own name is the last segment
endpoint_map_by_name(subscriptionId) ==
    [a \in {"active", "suspend", "cancelled", "renew"} |->
        "/subscriptions/" \o subscriptionId \o "/" \o a]

\* endpoint_map
endpoint_map(subscriptionId) ==
    [a \in {"active", "suspend", "cancelled", "renew"} |->
        "/subscriptions/" \o subscriptionId \o
            (CASE a = "active" -> "/activate"
               [] a = "suspend" -> "/suspend"
               [] a = "cancelled" -> "/cancel"
               [] a = "renew" -> "/renew")]

\* ocs_client.request(method="POST", endpoint=endpoint_map[action_lower])
ActionCall(subscriptionId, action) ==
    [method |-> "POST", endpoint |-> endpoint_map(subscriptionId)[Lower(action)],
     transaction_id |-> PyNone, params |-> PyNone, json |-> PyNone]

\* update_subscriber --------------------------------------------------------

\* elements a caller may put in the patch list
PatchElements ==
    { PyDict([fieldName |-> PyStr("personalInfo.email"), fieldValue |-> PyStr("a@b.at")]),
      PyDict([fieldName |-> PyStr("languageId"), fieldValue |-> PyNone]),
      PyDict([fieldName |-> PyStr("languageId"), fieldValue |-> PyStr("DE"),
              op |-> PyStr("replace")]),
      PyDict([fieldName |-> PyStr("languageId")]),
      PyDict([fieldValue |-> PyStr("DE")]),
      PyDict([fieldName |-> PyInt(7), fieldValue |-> PyStr("DE")]),
      PyStr("languageId"),
      PyNone }

MaxPatches == 2
PatchLists == UNION {[1..n -> PatchElements] : n \in 0..MaxPatches}

\* PatchOperation(**p) succeeds: p is a mapping that has a string fieldName
\* and a fieldValue (any value, None included); other keys are ignored
ValidPatch(p) ==
    /\ p.type = "dict"
    /\ {"fieldName", "fieldValue"} \subseteq DOMAIN p.val
    /\ p.val["fieldName"].type = "str"

\* what PatchOperation(**p) raises when it does not succeed
PatchError(p) ==
    IF p.type = "dict"
    THEN Error("ValidationError", "validation error for PatchOperation")
    ELSE Error("TypeError", "argument after ** must be a mapping")

\* PatchOperation(**p).model_dump(mode='json'): the two fields of the model
Dumped(p) ==
    PyDict([fieldName |-> DictGet(p, "fieldName", PyNone),
            fieldValue |-> DictGet(p, "fieldValue", PyNone)])

\* variant: only the first element is validated
PatchesValidFirstOnly(patches) ==
    /\ \A i \in 1..Len(patches) : patches[i].type = "dict"
    /\ Len(patches) >= 1 => ValidPatch(patches[1])

\* the list comprehension over patches runs to its end
PatchesValid(patches) == \A i \in 1..Len(patches) : ValidPatch(patches[i])

\* the exception of the first element that does not validate
FirstPatchError(patches) ==
    LET bad == {i \in 1..Len(patches) : ~ValidPatch(patches[i])}
        first == CHOOSE i \in bad : \A j \in bad : i <= j
    IN  PatchError(patches[first])

\* validated_patches
ValidatedPatches(patches) == PyList([i \in 1..Len(patches) |-> Dumped(patches[i])])

\* ocs_client.patch(f"/subscribers/{subscriber_id}", transaction_id=..., json=validated_patches)
PatchCall(subscriber_id, transaction_id, validated_patches) ==
    [method |-> "PATCH", endpoint |-> "/subscribers/" \o subscriber_id,
     transaction_id |-> transaction_id, params |-> PyNone, json |-> validated_patches]

\* the delete tools ---------------------------------------------------------

\* ocs_client.delete(f"/subscribers/{subscriber_id}", transaction_id=transaction_id)
DeleteSubscriberCall(subscriber_id, transaction_id) ==
    [method |-> "DELETE", endpoint |-> "/subscribers/" \o subscriber_id,
     transaction_id |-> transaction_id, params |-> PyNone, json |-> PyNone]

\* ocs_client.request(method="DELETE", endpoint=f"/subscriptions/{subscriptionId}")
DeleteSubscriptionCall(subscriptionId) ==
    [method |-> "DELETE", endpoint |-> "/subscriptions/" \o subscriptionId,
     transaction_id |-> PyNone, params |-> PyNone, json |-> PyNone]

\* ocs_client.request(method="DELETE", endpoint=f"/subscriptions/{subscriptionId}/balances")
DeleteBalancesCall(subscriptionId) ==
    [method |-> "DELETE", endpoint |-> "/subscriptions/" \o subscriptionId \o "/balances",
     transaction_id |-> PyNone, params |-> PyNone, json |-> PyNone]

\* variant: delete_subscriber hands the wrapper's result on, as the other two do
DeleteSubscriberReturnResult(subscriber_id, o) == o

\* delete_subscriber after its await: the wrapper's result is dropped and the
\* confirmation string returned; an exception propagates
DeleteSubscriberReturn(subscriber_id, o) ==
    IF o.kind = "return"
    THEN Return(PyStr("Subscriber " \o subscriber_id \o " deleted successfully"))
    ELSE o

\* the usage tools ----------------------------------------------------------

\* usage.model_dump(mode='json', exclude_none=True) for the usages submitted
UsageData ==
    { PyDict([usageId |-> PyStr("u-1"), chargedPartyId |-> PyStr("sub-1"),
              usageType |-> PyStr("VOICE"), volumeUsage |-> PyInt(300)]),
      PyDict([usageId |-> PyStr("u-2"), chargedPartyId |-> PyStr("sub-2"),
              usageType |-> PyStr("SMS"), volumeUsage |-> PyInt(1)]) }

\* ocs_client.post("/usage", json=data)
UsageCall(data) ==
    [method |-> "POST", endpoint |-> "/usage",
     transaction_id |-> PyNone, params |-> PyNone, json |-> data]

Limits == {PyNone, PyInt(100)}
Offsets == {PyNone, PyInt(0)}

\* params: limit and offset, each only when it is not None
UsageParams(limit, offset) ==
    LET keys == {k \in {"limit", "offset"} :
                    (IF k = "limit" THEN limit ELSE offset) # PyNone}
    IN  PyDict([k \in keys |-> IF k = "limit" THEN limit ELSE offset])

\* ocs_client.get(f"/subscribers/{subscriberId}/usage", params=params)
ListUsageCall(subscriberId, limit, offset) ==
    [method |-> "GET", endpoint |-> "/subscribers/" \o subscriberId \o "/usage",
     transaction_id |-> PyNone, params |-> UsageParams(limit, offset), json |-> PyNone]

\* record_usage after its await: response.get('usageId') is evaluated for the
\* log line before the response is returned
RecordUsageReturn(o) ==
    IF o.kind = "return" /\ o.value.type # "dict"
    THEN Raise(Error("AttributeError", "object has no attribute 'get'"))
    ELSE o

\* the types len() accepts
Sized == {"dict", "list", "str"}

\* list_usage_for_subscriber after its await: len(response) is evaluated for
\* the log line before the response is returned
ListUsageReturn(o) ==
    IF o.kind = "return" /\ o.value.type \notin Sized
    THEN Raise(Error("TypeError", "object has no len()"))
    ELSE o

\* what a tool function makes of the outcome o of its awaited wrapper call
ToolReturn(t, a, o) ==
    CASE t = "delete_subscriber" -> DeleteSubscriberReturn(a.subscriber_id, o)
      [] t = "record_usage" -> RecordUsageReturn(o)
      [] t = "list_usage_for_subscriber" -> ListUsageReturn(o)
      [] OTHER -> o

----------------------------------------------------------------------------
(* The offer catalog (src/tools/offers.py).                                *)

PyBool(b) == [type |-> "bool", val |-> b]
\* a number of the catalog, kept as its literal (amounts exceed 32 bits)
PyIntLit(literal) == [type |-> "int", lit |-> literal]
PyFloatLit(literal) == [type |-> "float", lit |-> literal]

\* one entry of an offer's "balances"
Balance(amount, unit, recurring, cycleUnit, rolloverAllowed, maxRolloverAmount, description) ==
    PyDict([type |-> PyStr("ALLOWANCE"), amount |-> PyIntLit(amount),
            unit |-> PyStr(unit), recurring |-> PyBool(recurring),
            cycleLength |-> PyIntLit("1"), cycleUnit |-> PyStr(cycleUnit),
            rolloverAllowed |-> PyBool(rolloverAllowed),
            maxRolloverAmount |-> PyIntLit(maxRolloverAmount),
            description |-> PyStr(description)])

\* one entry of the catalog
Offer(offerId, offerName, description, price, type, recurring, cycleLength, cycleUnit, balances) ==
    PyDict([offerId |-> PyStr(offerId), offerName |-> PyStr(offerName),
            description |-> PyStr(description), price |-> PyFloatLit(price),
            type |-> PyStr(type), recurring |-> PyBool(recurring),
            paid |-> PyBool(TRUE), groupOffer |-> PyBool(FALSE),
            maxRecurringCycles |-> PyNone, cycleLength |-> PyIntLit(cycleLength),
            cycleUnit |-> PyStr(cycleUnit), balances |-> PyList(balances)])

\* variant: the balances of offer "1000" in another order
Offer1000DataFirst ==
    Offer("1000", "Basic prepaid plan",
          "Basic prepaid priceplan, which covers all type of services",
          "7.99", "PREPAID", TRUE, "0", "MONTH", <<
        Balance("10737418240", "BYTES", TRUE, "MONTH", FALSE, "0",
                "Prepaid base balance for data service"),
        Balance("3600", "SECONDS", TRUE, "MONTH", FALSE, "0",
                "Prepaid base balance for voice service"),
        Balance("1000", "EVENTS", TRUE, "MONTH", FALSE, "0",
                "Prepaid base balance for SMS and MMS service") >>)

\* the catalog's entries; the en dash of four descriptions is written "-"
Offer1000 ==
    Offer("1000", "Basic prepaid plan",
          "Basic prepaid priceplan, which covers all type of services",
          "7.99", "PREPAID", TRUE, "0", "MONTH", <<
        Balance("3600", "SECONDS", TRUE, "MONTH", FALSE, "0",
                "Prepaid base balance for voice service"),
        Balance("1000", "EVENTS", TRUE, "MONTH", FALSE, "0",
                "Prepaid base balance for SMS and MMS service"),
        Balance("10737418240", "BYTES", TRUE, "MONTH", FALSE, "0",
                "Prepaid base balance for data service") >>)

Offer1001 ==
    Offer("1001", "Basic postpaid plan",
          "Basic postpaid priceplan, which covers all type of services",
          "15.99", "POSTPAID", TRUE, "0", "MONTH", <<
        Balance("86600", "SECONDS", TRUE, "MONTH", FALSE, "0",
                "Postpaid base balance for voice service"),
        Balance("5000", "EVENTS", TRUE, "MONTH", FALSE, "0",
                "Postpaid base balance for SMS and MMS service"),
        Balance("10737418240", "BYTES", TRUE, "MONTH", FALSE, "0",
                "Postpaid base balance for data service") >>)

Offer1002 ==
    Offer("1002", "Weekly data bundle 5GB",
          "Prepaid weekly data bundle - 5GB",
          "4.99", "PREPAID", TRUE, "4", "WEEK", <<
        Balance("5368709120", "BYTES", TRUE, "WEEK", TRUE, "5368709120",
                "Prepaid 5GB weekly balance") >>)

Offer1003 ==
    Offer("1003", "Monthly data bundle 25GB",
          "Prepaid monthly data bundle - 25GB",
          "12.99", "PREPAID", FALSE, "1", "MONTH", <<
        Balance("26843545600", "BYTES", FALSE, "MONTH", TRUE, "0",
                "Prepaid 25GB one time monthly balance") >>)

Offer1010 ==
    Offer("1010", "Premium prepaid plan",
          "Premium prepaid price plan, which contains more free units for all type of services",
          "9.99", "PREPAID", TRUE, "0", "MONTH", <<
        Balance("18000", "SECONDS", TRUE, "MONTH", TRUE, "7200",
                "5 hours prepaid balance for voice service with 2 hours rollover"),
        Balance("5000", "EVENTS", TRUE, "MONTH", TRUE, "2000",
                "5000 events prepaid balance for SMS and MMS services with 2000 events rollover"),
        Balance("21474836480", "BYTES", TRUE, "MONTH", TRUE, "10737418240",
                "20GB prepaid balance for data service with 10GB rollover") >>)

Offer1011 ==
    Offer("1011", "Premium postpaid plan",
          "Premium postpaid price plan with enhanced allowances for all services",
          "24.99", "POSTPAID", TRUE, "0", "MONTH", <<
        Balance("180000", "SECONDS", TRUE, "MONTH", TRUE, "36000",
                "50 hours postpaid balance for voice service with 10 hours rollover"),
        Balance("10000", "EVENTS", TRUE, "MONTH", TRUE, "3000",
                "10000 events postpaid balance for SMS and MMS services with 3000 events rollover"),
        Balance("53687091200", "BYTES", TRUE, "MONTH", TRUE, "21474836480",
                "50GB postpaid balance for data service with 20GB rollover") >>)

Offer1020 ==
    Offer("1020", "Weekly data bundle 10GB - Postpaid",
          "Postpaid weekly data bundle - 10GB with rollover",
          "6.99", "POSTPAID", TRUE, "4", "WEEK", <<
        Balance("10737418240", "BYTES", TRUE, "WEEK", TRUE, "10737418240",
                "Postpaid 10GB weekly balance with full rollover") >>)

Offer1021 ==
    Offer("1021", "Monthly data bundle 50GB - Postpaid",
          "Postpaid monthly data bundle - 50GB with rollover",
          "19.99", "POSTPAID", TRUE, "1", "MONTH", <<
        Balance("53687091200", "BYTES", TRUE, "MONTH", TRUE, "26843545600",
                "Postpaid 50GB monthly balance with 25GB rollover") >>)

Offer1030 ==
    Offer("1030", "Voice bundle 500 minutes - Postpaid",
          "Additional 500 minutes voice bundle for postpaid subscribers",
          "5.99", "POSTPAID", TRUE, "1", "MONTH", <<
        Balance("30000", "SECONDS", TRUE, "MONTH", TRUE, "15000",
                "500 minutes (30000 seconds) voice balance with 250 minutes rollover") >>)

Offer1031 ==
    Offer("1031", "Voice bundle 1000 minutes - Postpaid",
          "Additional 1000 minutes voice bundle for postpaid subscribers",
          "9.99", "POSTPAID", TRUE, "1", "MONTH", <<
        Balance("60000", "SECONDS", TRUE, "MONTH", TRUE, "30000",
                "1000 minutes (60000 seconds) voice balance with 500 minutes rollover") >>)

Offer1040 ==
    Offer("1040", "SMS/MMS bundle 1000 messages - Postpaid",
          "Additional 1000 SMS/MMS messages bundle for postpaid subscribers",
          "3.99", "POSTPAID", TRUE, "1", "MONTH", <<
        Balance("1000", "EVENTS", TRUE, "MONTH", TRUE, "500",
                "1000 SMS/MMS events balance with 500 messages rollover") >>)

Offer1041 ==
    Offer("1041", "SMS/MMS bundle 2500 messages - Postpaid",
          "Additional 2500 SMS/MMS messages bundle for postpaid subscribers",
          "7.99", "POSTPAID", TRUE, "1", "MONTH", <<
        Balance("2500", "EVENTS", TRUE, "MONTH", TRUE, "1000",
                "2500 SMS/MMS events balance with 1000 messages rollover") >>)

\* _get_offers_catalog()
offers_catalog ==
    << Offer1000, Offer1001, Offer1002, Offer1003, Offer1010, Offer1011, Offer1020, Offer1021, Offer1030, Offer1031, Offer1040, Offer1041 >>

\* json.dumps(v, indent=2): a str holding the JSON text of v
JsonDumps(v) == [type |-> "str", json |-> v]

\* offerId arguments: the catalog's ids and strings that are not
OfferIds ==
    {"1000", "1001", "1002", "1003", "1010", "1011", "1020", "1021", "1030", "1031",
     "1040", "1041", "9999", "100", "10000", ""}

\* variant: the list lacks the last offer of the catalog
availableOfferIds_without_1041 ==
    << "1000", "1001", "1002", "1003", "1010", "1011", "1020", "1021", "1030", "1031",
       "1040" >>

\* the "availableOfferIds" list written out in get_offer_by_id
availableOfferIds ==
    << "1000", "1001", "1002", "1003", "1010", "1011", "1020", "1021", "1030", "1031",
       "1040", "1041" >>

\* next((o for o in offers if o["offerId"] == offerId), None)
FindOffer(offers, offerId) ==
    LET hits == {i \in 1..Len(offers) : offers[i].val["offerId"] = PyStr(offerId)}
    IN  IF hits = {} THEN PyNone ELSE offers[CHOOSE i \in hits : \A j \in hits : i <= j]

\* error_response
OfferNotFound(offerId) ==
    PyDict([error |-> PyStr("Offer not found"),
            message |-> PyStr("No offer found with offerId: " \o offerId),
            availableOfferIds |->
                PyList([i \in 1..Len(availableOfferIds) |-> PyStr(availableOfferIds[i])])])

\* variant: the scan stops at the first offer whatever its id
GetOfferFirstEntry(offers, offerId) == Return(JsonDumps(offers[1]))

\* get_offer_by_id
GetOffer(offers, offerId) ==
    LET offer == FindOffer(offers, offerId)
    IN  IF offer # PyNone
        THEN Return(JsonDumps(offer))
        ELSE Return(JsonDumps(OfferNotFound(offerId)))

----------------------------------------------------------------------------
(* The tool registry (src/server.py) and the remaining tool functions.     *)

\* add_tool_calls with update_subscription registered as well
add_tool_calls_with_update_subscription ==
    << "create_subscriber", "get_subscriber", "update_subscriber", "delete_subscriber",
       "lookup_subscriber", "change_subscriber_state",
       "create_subscription", "list_subscriptions", "get_subscription",
       "update_subscription",
       "change_subscription_state", "delete_subscription",
       "create_balance", "list_balances", "delete_balances",
       "create_account_history", "get_account_history",
       "get_available_offers", "get_offer_by_id",
       "record_usage", "list_usage_for_subscriber" >>

\* the mcp.add_tool(...) calls, in order; a tool is registered under the name
\* of its function
add_tool_calls ==
    << "create_subscriber", "get_subscriber", "update_subscriber", "delete_subscriber",
       "lookup_subscriber", "change_subscriber_state",
       "create_subscription", "list_subscriptions", "get_subscription",
       "change_subscription_state", "delete_subscription",
       "create_balance", "list_balances", "delete_balances",
       "create_account_history", "get_account_history",
       "get_available_offers", "get_offer_by_id",
       "record_usage", "list_usage_for_subscriber" >>

\* the names the server answers to
RegisteredTools == {add_tool_calls[i] : i \in 1..Len(add_tool_calls)}

\* the names session.call_tool is given by the integration test, in order
test_calls ==
    << "create_subscriber", "lookup_subscriber", "get_subscriber", "update_subscriber",
       "create_subscription", "list_subscriptions", "get_subscription",
       "update_subscription", "create_balance", "list_balances", "delete_balances",
       "create_account_history", "get_account_history", "list_account_history",
       "update_account_history", "delete_subscription", "delete_subscriber" >>

\* the names a client may ask for: the test's and the registered ones
ClientNames == RegisteredTools \cup {test_calls[i] : i \in 1..Len(test_calls)}

\* lookup_subscriber's msisdn and first_name arguments
LookupMsisdns == {PyNone, PyStr(""), PyDigits(<<4, 3, 6, 6, 0, 1, 0, 0, 0, 0, 0, 0>>)}
LookupNames == {PyNone, PyStr("Ada")}

\* params of lookup_subscriber: an entry for every argument that is truthy
LookupParams(msisdn, imsi, first_name, last_name) ==
    LET given == [msisdn |-> msisdn, imsi |-> imsi, firstName |-> first_name,
                  lastName |-> last_name]
    IN  PyDict([k \in {k \in DOMAIN given : ~Falsy(given[k])} |-> given[k]])

\* model_dump(mode='json', exclude_none=True) of the Subscription, Balance and
\* AccountHistory arguments submitted
SubscriptionData ==
    { PyDict([offerId |-> PyStr("1000"), offerName |-> PyStr("Basic prepaid plan")]),
      PyDict([offerId |-> PyStr("1002"), state |-> PyStr("pending")]) }
BalanceData ==
    { PyDict([unitType |-> PyStr("BYTES"), balanceAmount |-> PyInt(1024)]) }
AccountHistoryData ==
    { PyDict([entityId |-> PyStr("sub-1"), entityType |-> PyStr("SUBSCRIBER"),
              description |-> PyStr("state change")]) }
InteractionIds == {"int-1", "int-2"}

\* a call of the wrapper with these arguments and the rest left out
Call(method, endpoint, transaction_id, params, json) ==
    [method |-> method, endpoint |-> endpoint, transaction_id |-> transaction_id,
     params |-> params, json |-> json]

----------------------------------------------------------------------------
(* The state machine.                                                      *)

TransactionIds == {PyNone, PyStr(""), PyStr("tx-1")}
ApiKeys == {"key-A", "key-B"}
Methods == {"GET", "DELETE"}
Endpoints == {"/subscribers/sub-1", "/subscriptions/s-1/balances"}

\* the inputs drawn when one invocation runs at a time
Sequential ==
    [api_keys |-> ApiKeys, transaction_ids |-> TransactionIds, uuids |-> UUIDs,
     methods |-> Methods, endpoints |-> Endpoints,
     random_numbers |-> RandomNumbers, days |-> Days,
     subscriber_types |-> SubscriberTypes,
     subscriber_ids |-> SubscriberIds, subscription_ids |-> SubscriptionIds,
     states |-> States, actions |-> Actions, patch_lists |-> PatchLists,
     usages |-> UsageData, limits |-> Limits, offsets |-> Offsets,
     offer_ids |-> OfferIds, names |-> ClientNames,
     lookup_msisdns |-> LookupMsisdns, lookup_names |-> LookupNames,
     subscriptions |-> SubscriptionData, balances |-> BalanceData,
     histories |-> AccountHistoryData, interaction_ids |-> InteractionIds,
     statuses |-> Statuses, texts |-> BodyTexts, exceptions |-> ClientExceptions]

\* the inputs drawn when two invocations interleave: a sample of the above
Interleaved ==
    [api_keys |-> {"key-A"}, transaction_ids |-> {PyNone, PyStr("tx-1")}, uuids |-> UUIDs,
     methods |-> {"GET"}, endpoints |-> {"/subscribers/sub-1"},
     random_numbers |-> {RandomLow}, days |-> {1},
     subscriber_types |-> {"PREPAID"},
     subscriber_ids |-> {"sub-1"}, subscription_ids |-> {"s-1"},
     states |-> {"ACTIVE", "BOGUS"}, actions |-> {"renew", "cancel"},
     patch_lists |->
         { <<PyDict([fieldName |-> PyStr("personalInfo.email"),
                     fieldValue |-> PyStr("a@b.at")])>>,
           <<PyDict([fieldName |-> PyStr("languageId"), fieldValue |-> PyNone])>>,
           <<PyDict([fieldName |-> PyStr("languageId")])>> },
     usages |-> UsageData, limits |-> {PyInt(100)}, offsets |-> {PyInt(0)},
     offer_ids |-> {"1000", "9999"}, names |-> {"update_subscription"},
     lookup_msisdns |-> {PyNone}, lookup_names |-> {PyStr("Ada")},
     subscriptions |-> {PyDict([offerId |-> PyStr("1000"),
                                offerName |-> PyStr("Basic prepaid plan")])},
     balances |-> BalanceData, histories |-> AccountHistoryData,
     interaction_ids |-> {"int-1"},
     statuses |-> {200, 204},
     texts |-> {"{\"ResultCode\": \"Entity not found\"}", "{\"subscriberId\": \"sub-1\"}"},
     exceptions |-> {Error("ConnectError", "All connection attempts failed")}]

Inputs == IF Cardinality(active) = 1 THEN Sequential ELSE Interleaved

NoCall == [kind |-> "none"]
NoLocals == [kind |-> "none"]
NoArgs == [kind |-> "none"]
NothingSent == [lookup |-> 0, post |-> 0, other |-> 0]

\* no tool function is running
AllIdle ==
    /\ pc = [p \in Procs |-> "idle"]
    /\ tool = [p \in Procs |-> "none"]
    /\ args = [p \in Procs |-> NoArgs]
    /\ cs = [p \in Procs |-> NoLocals]
    /\ call = [p \in Procs |-> NoCall]
    /\ req = [p \in Procs |-> NoCall]
    /\ resp = [p \in Procs |-> NoResponse]
    /\ outcome = [p \in Procs |-> NoOutcome]
    /\ result = [p \in Procs |-> NoOutcome]
    /\ sent = [p \in Procs |-> NothingSent]
    /\ probes = [p \in Procs |-> <<>>]

Init ==
    /\ active = {1}
    /\ api_key \in Inputs.api_keys
    /\ AllIdle

\* the host runs two tool invocations on the one event loop
InitConc ==
    /\ active = Procs
    /\ api_key \in Inputs.api_keys
    /\ AllIdle

\* variant: the per-request headers are one dict shared by the calls in
\* progress, so the newest transaction id shows in all of them
SendSharedHeaders(p, c, fresh, kind) ==
    /\ call' = [call EXCEPT ![p] = c]
    /\ req' = [q \in Procs |->
                 IF q = p THEN Outgoing(api_key, c, fresh)
                 ELSE IF req[q] = NoCall THEN req[q]
                 ELSE [req[q] EXCEPT !.headers = Outgoing(api_key, c, fresh).headers]]
    /\ resp' = [resp EXCEPT ![p] = NoResponse]
    /\ outcome' = [outcome EXCEPT ![p] = NoOutcome]
    /\ sent' = [sent EXCEPT ![p][kind] = @ + 1]

\* request() up to its await: the call c leaves as an HTTP request
Send(p, c, fresh, kind) ==
    /\ call' = [call EXCEPT ![p] = c]
    /\ req' = [req EXCEPT ![p] = Outgoing(api_key, c, fresh)]
    /\ resp' = [resp EXCEPT ![p] = NoResponse]
    /\ outcome' = [outcome EXCEPT ![p] = NoOutcome]
    /\ sent' = [sent EXCEPT ![p][kind] = @ + 1]

\* the tool function ends with res, after the wrapper made o of r
End(p, r, o, res) ==
    /\ resp' = [resp EXCEPT ![p] = r]
    /\ outcome' = [outcome EXCEPT ![p] = o]
    /\ result' = [result EXCEPT ![p] = res]
    /\ pc' = [pc EXCEPT ![p] = "done"]
    /\ UNCHANGED <<call, req, sent>>

\* the host calls tool function t with arguments a
Start(p, t, a) ==
    /\ t \in RegisteredTools
    /\ p \in active
    /\ pc[p] = "idle"
    /\ tool' = [tool EXCEPT ![p] = t]
    /\ args' = [args EXCEPT ![p] = a]
    /\ UNCHANGED <<api_key, active, cs, probes>>

\* the tool function reaches its one await, of the wrapper call c
Await(p, c) ==
    /\ \E fresh \in Inputs.uuids : Send(p, c, fresh, "other")
    /\ pc' = [pc EXCEPT ![p] = "await_request"]
    /\ UNCHANGED result

\* the tool function ends with res without having called the wrapper
Answer(p, res) ==
    /\ result' = [result EXCEPT ![p] = res]
    /\ pc' = [pc EXCEPT ![p] = "done"]
    /\ UNCHANGED <<call, req, resp, outcome, sent>>

\* `if transaction_id is None: transaction_id = str(uuid.uuid4())`
OwnTransactionId(transaction_id, own) ==
    IF transaction_id = PyNone THEN PyStr(own) ELSE transaction_id

\* a pass-through caller awaits ocs_client.request(method, endpoint, transaction_id)
Request(p) ==
    /\ p \in active
    /\ pc[p] = "idle"
    /\ \E method \in Inputs.methods, endpoint \in Inputs.endpoints,
          transaction_id \in Inputs.transaction_ids, fresh \in Inputs.uuids :
        /\ tool' = [tool EXCEPT ![p] = "request"]
        /\ args' = [args EXCEPT ![p] = [transaction_id |-> transaction_id]]
        /\ Send(p, [method |-> method, endpoint |-> endpoint,
                    transaction_id |-> transaction_id,
                    params |-> PyNone, json |-> PyNone], fresh, "other")
    /\ pc' = [pc EXCEPT ![p] = "await_request"]
    /\ UNCHANGED <<api_key, active, cs, result, probes>>

\* change_subscriber_state up to its await, or to its early return
ChangeSubscriberState(p) ==
    \E subscriber_id \in Inputs.subscriber_ids, state \in Inputs.states,
       transaction_id \in Inputs.transaction_ids, own \in Inputs.uuids :
        /\ Start(p, "change_subscriber_state",
                 [subscriber_id |-> subscriber_id, state |-> state,
                  transaction_id |-> transaction_id])
        /\ IF StateIsValid(state)
           THEN Await(p, StateCall(subscriber_id, state,
                                   OwnTransactionId(transaction_id, own)))
           ELSE Answer(p, InvalidState(state))

\* change_subscription_state up to its await, or to its early return
ChangeSubscriptionState(p) ==
    \E subscriptionId \in Inputs.subscription_ids, action \in Inputs.actions :
        /\ Start(p, "change_subscription_state",
                 [subscriptionId |-> subscriptionId, action |-> action])
        /\ IF ActionIsValid(action)
           THEN Await(p, ActionCall(subscriptionId, action))
           ELSE Answer(p, InvalidAction(action))

\* update_subscriber up to its await, or to the exception of a patch element
UpdateSubscriber(p) ==
    \E subscriber_id \in Inputs.subscriber_ids, patches \in Inputs.patch_lists,
       transaction_id \in Inputs.transaction_ids, own \in Inputs.uuids :
        /\ Start(p, "update_subscriber",
                 [subscriber_id |-> subscriber_id, patches |-> patches,
                  transaction_id |-> transaction_id])
        /\ IF PatchesValid(patches)
           THEN Await(p, PatchCall(subscriber_id, OwnTransactionId(transaction_id, own),
                                   ValidatedPatches(patches)))
           ELSE Answer(p, Raise(FirstPatchError(patches)))

\* delete_subscriber up to its await
DeleteSubscriber(p) ==
    \E subscriber_id \in Inputs.subscriber_ids,
       transaction_id \in Inputs.transaction_ids, own \in Inputs.uuids :
        /\ Start(p, "delete_subscriber",
                 [subscriber_id |-> subscriber_id, transaction_id |-> transaction_id])
        /\ Await(p, DeleteSubscriberCall(subscriber_id,
                                         OwnTransactionId(transaction_id, own)))

\* delete_subscription up to its await
DeleteSubscription(p) ==
    \E subscriptionId \in Inputs.subscription_ids :
        /\ Start(p, "delete_subscription", [subscriptionId |-> subscriptionId])
        /\ Await(p, DeleteSubscriptionCall(subscriptionId))

\* delete_balances up to its await
DeleteBalances(p) ==
    \E subscriptionId \in Inputs.subscription_ids :
        /\ Start(p, "delete_balances", [subscriptionId |-> subscriptionId])
        /\ Await(p, DeleteBalancesCall(subscriptionId))

\* record_usage up to its await
RecordUsage(p) ==
    \E data \in Inputs.usages :
        /\ Start(p, "record_usage", [usage |-> data])
        /\ Await(p, UsageCall(data))

\* list_usage_for_subscriber up to its await
ListUsageForSubscriber(p) ==
    \E subscriberId \in Inputs.subscriber_ids, limit \in Inputs.limits,
       offset \in Inputs.offsets :
        /\ Start(p, "list_usage_for_subscriber",
                 [subscriberId |-> subscriberId, limit |-> limit, offset |-> offset])
        /\ Await(p, ListUsageCall(subscriberId, limit, offset))

\* get_offer_by_id: it has no await
GetOfferById(p) ==
    \E offerId \in Inputs.offer_ids :
        /\ Start(p, "get_offer_by_id", [offerId |-> offerId])
        /\ Answer(p, GetOffer(offers_catalog, offerId))

\* the host is asked for a name that is not registered: no tool function runs
UnknownTool(p) ==
    /\ p \in active
    /\ pc[p] = "idle"
    /\ \E name \in Inputs.names \ RegisteredTools :
        /\ args' = [args EXCEPT ![p] = [name |-> name]]
        /\ Answer(p, Raise(Error("ToolError", "Unknown tool: " \o name)))
    /\ UNCHANGED <<api_key, active, tool, cs, probes>>

\* lookup_subscriber up to its await
LookupSubscriber(p) ==
    \E msisdn \in Inputs.lookup_msisdns, first_name \in Inputs.lookup_names,
       transaction_id \in Inputs.transaction_ids, own \in Inputs.uuids :
        /\ Start(p, "lookup_subscriber",
                 [msisdn |-> msisdn, first_name |-> first_name,
                  transaction_id |-> transaction_id])
        /\ Await(p, Call("GET", "/subscribers/lookup",
                         OwnTransactionId(transaction_id, own),
                         LookupParams(msisdn, PyNone, first_name, PyNone), PyNone))

\* get_subscriber up to its await
GetSubscriber(p) ==
    \E subscriber_id \in Inputs.subscriber_ids,
       transaction_id \in Inputs.transaction_ids, own \in Inputs.uuids :
        /\ Start(p, "get_subscriber",
                 [subscriber_id |-> subscriber_id, transaction_id |-> transaction_id])
        /\ Await(p, Call("GET", "/subscribers/" \o subscriber_id,
                         OwnTransactionId(transaction_id, own), PyNone, PyNone))

\* create_subscription up to its await
CreateSubscription(p) ==
    \E subscriberId \in Inputs.subscriber_ids, data \in Inputs.subscriptions :
        /\ Start(p, "create_subscription",
                 [subscriberId |-> subscriberId, subscription |-> data])
        /\ Await(p, Call("POST", "/subscribers/" \o subscriberId \o "/subscriptions",
                         PyNone, PyNone, data))

\* list_subscriptions up to its await
ListSubscriptions(p) ==
    \E subscriberId \in Inputs.subscriber_ids :
        /\ Start(p, "list_subscriptions", [subscriberId |-> subscriberId])
        /\ Await(p, Call("GET", "/subscribers/" \o subscriberId \o "/subscriptions",
                         PyNone, PyNone, PyNone))

\* get_subscription up to its await
GetSubscription(p) ==
    \E subscriptionId \in Inputs.subscription_ids :
        /\ Start(p, "get_subscription", [subscriptionId |-> subscriptionId])
        /\ Await(p, Call("GET", "/subscriptions/" \o subscriptionId,
                         PyNone, PyNone, PyNone))

\* create_balance up to its await
CreateBalance(p) ==
    \E subscriptionId \in Inputs.subscription_ids, data \in Inputs.balances :
        /\ Start(p, "create_balance",
                 [subscriptionId |-> subscriptionId, balance |-> data])
        /\ Await(p, Call("POST", "/subscriptions/" \o subscriptionId \o "/balances",
                         PyNone, PyNone, data))

\* list_balances up to its await
ListBalances(p) ==
    \E subscriptionId \in Inputs.subscription_ids :
        /\ Start(p, "list_balances", [subscriptionId |-> subscriptionId])
        /\ Await(p, Call("GET", "/subscriptions/" \o subscriptionId \o "/balances",
                         PyNone, PyNone, PyNone))

\* create_account_history up to its await
CreateAccountHistory(p) ==
    \E data \in Inputs.histories :
        /\ Start(p, "create_account_history", [accountHistory |-> data])
        /\ Await(p, Call("POST", "/accountHistory", PyNone, PyNone, data))

\* get_account_history up to its await
GetAccountHistory(p) ==
    \E interactionId \in Inputs.interaction_ids :
        /\ Start(p, "get_account_history", [interactionId |-> interactionId])
        /\ Await(p, Call("GET", "/accountHistory/" \o interactionId,
                         PyNone, PyNone, PyNone))

\* get_available_offers: it has no await
GetAvailableOffers(p) ==
    /\ Start(p, "get_available_offers", NoArgs)
    /\ Answer(p, Return(JsonDumps(PyList(offers_catalog))))

\* create_subscriber from its entry to the first lookup's await
CreateSubscriber(p) ==
    /\ "create_subscriber" \in RegisteredTools
    /\ p \in active
    /\ pc[p] = "idle"
    /\ \E transaction_id \in Inputs.transaction_ids,
          subscriber_type \in Inputs.subscriber_types,
          own \in Inputs.uuids, random_number \in Inputs.random_numbers,
          fresh \in Inputs.uuids :
        LET tid == IF transaction_id = PyNone THEN PyStr(own) ELSE transaction_id
            candidate_msisdn == CandidateMsisdn(random_number)
        IN  /\ tool' = [tool EXCEPT ![p] = "create_subscriber"]
            /\ args' = [args EXCEPT ![p] = [transaction_id |-> transaction_id,
                                            subscriber_type |-> subscriber_type]]
            /\ cs' = [cs EXCEPT ![p] = [transaction_id |-> tid, attempt |-> 0,
                                        candidate_msisdn |-> candidate_msisdn,
                                        msisdn |-> PyNone, current_day |-> 0,
                                        subscriber_data |-> PyNone]]
            /\ Send(p, LookupCall(tid, candidate_msisdn), fresh, "lookup")
    /\ pc' = [pc EXCEPT ![p] = "await_lookup"]
    /\ UNCHANGED <<api_key, active, result, probes>>

\* variant: a failed lookup is tried again with a new candidate
AfterLookupRetries(p, r, o) ==
    LET c == cs[p] IN
    /\ probes' = [probes EXCEPT ![p] = Append(@, Verdict(o))]
    /\ IF o.kind = "raise" /\ MoreAttempts(c.attempt)
       THEN \E random_number \in Inputs.random_numbers, fresh \in Inputs.uuids :
                /\ cs' = [cs EXCEPT ![p].attempt = c.attempt + 1,
                                    ![p].candidate_msisdn = CandidateMsisdn(random_number)]
                /\ Send(p, LookupCall(c.transaction_id, CandidateMsisdn(random_number)),
                        fresh, "lookup")
                /\ UNCHANGED <<pc, result>>
       ELSE IF o.kind = "raise"
       THEN End(p, r, o, o) /\ UNCHANGED cs
       ELSE IF o.value.type # "dict"
       THEN /\ End(p, r, o, Raise(Error("AttributeError", "object has no attribute 'get'")))
            /\ UNCHANGED cs
       ELSE IF IsNotFound(o.value)
       THEN \E current_day \in Inputs.days :
            LET data == SubscriberData(c.candidate_msisdn, args[p].subscriber_type,
                                       current_day)
            IN  /\ cs' = [cs EXCEPT ![p].msisdn = c.candidate_msisdn,
                                    ![p].subscriber_data = data,
                                    ![p].current_day = current_day]
                /\ IF ValidSubscriber(data)
                   THEN /\ \E fresh \in Inputs.uuids :
                              Send(p, CreateCall(c.transaction_id, Payload(data)),
                                   fresh, "post")
                        /\ pc' = [pc EXCEPT ![p] = "await_post"]
                        /\ UNCHANGED result
                   ELSE End(p, r, o, Raise(Error("ValidationError",
                                                 "1 validation error for Subscriber")))
       ELSE IF MoreAttempts(c.attempt)
       THEN \E random_number \in Inputs.random_numbers, fresh \in Inputs.uuids :
                /\ cs' = [cs EXCEPT ![p].attempt = c.attempt + 1,
                                    ![p].candidate_msisdn = CandidateMsisdn(random_number)]
                /\ Send(p, LookupCall(c.transaction_id, CandidateMsisdn(random_number)),
                        fresh, "lookup")
                /\ UNCHANGED <<pc, result>>
       ELSE /\ End(p, r, o, Raise(Error("Exception",
                             "Failed to generate unique MSISDN after 10 attempts")))
            /\ UNCHANGED cs

\* create_subscriber from a lookup's result to its next await, or to its end
AfterLookup(p, r, o) ==
    LET c == cs[p] IN
    /\ probes' = [probes EXCEPT ![p] = Append(@, Verdict(o))]
    /\ IF o.kind = "raise"
       THEN End(p, r, o, o) /\ UNCHANGED cs
       ELSE IF o.value.type # "dict"
       THEN /\ End(p, r, o, Raise(Error("AttributeError", "object has no attribute 'get'")))
            /\ UNCHANGED cs
       ELSE IF IsNotFound(o.value)
       THEN \E current_day \in Inputs.days :
            LET data == SubscriberData(c.candidate_msisdn, args[p].subscriber_type,
                                       current_day)
            IN  /\ cs' = [cs EXCEPT ![p].msisdn = c.candidate_msisdn,
                                    ![p].subscriber_data = data,
                                    ![p].current_day = current_day]
                /\ IF ValidSubscriber(data)
                   THEN /\ \E fresh \in Inputs.uuids :
                              Send(p, CreateCall(c.transaction_id, Payload(data)),
                                   fresh, "post")
                        /\ pc' = [pc EXCEPT ![p] = "await_post"]
                        /\ UNCHANGED result
                   ELSE End(p, r, o, Raise(Error("ValidationError",
                                                 "1 validation error for Subscriber")))
       ELSE IF MoreAttempts(c.attempt)
       THEN \E random_number \in Inputs.random_numbers, fresh \in Inputs.uuids :
                /\ cs' = [cs EXCEPT ![p].attempt = c.attempt + 1,
                                    ![p].candidate_msisdn = CandidateMsisdn(random_number)]
                /\ Send(p, LookupCall(c.transaction_id, CandidateMsisdn(random_number)),
                        fresh, "lookup")
                /\ UNCHANGED <<pc, result>>
       ELSE /\ End(p, r, o, Raise(Error("Exception",
                             "Failed to generate unique MSISDN after 10 attempts")))
            /\ UNCHANGED cs

\* the awaited call produced r: the wrapper finishes and the tool function goes on
Resume(p, r) ==
    /\ IF pc[p] = "await_lookup"
       THEN AfterLookup(p, r, RequestOutcome(r))
       ELSE /\ End(p, r, RequestOutcome(r),
                   ToolReturn(tool[p], args[p], RequestOutcome(r)))
            /\ UNCHANGED <<cs, probes>>
    /\ UNCHANGED <<api_key, active, tool, args>>

Awaiting(p) == pc[p] \in {"await_request", "await_lookup", "await_post"}

\* the upstream API answers
Respond(p) ==
    /\ Awaiting(p)
    /\ \E status \in Inputs.statuses, text \in Inputs.texts :
        Resume(p, HttpResponse(status, text))

\* httpx raises instead of answering
Fail(p) ==
    /\ Awaiting(p)
    /\ \E e \in Inputs.exceptions : Resume(p, Raised(e))

\* the host takes the tool function's result; the slot is free again
Finish(p) ==
    /\ pc[p] = "done"
    /\ pc' = [pc EXCEPT ![p] = "idle"]
    /\ tool' = [tool EXCEPT ![p] = "none"]
    /\ args' = [args EXCEPT ![p] = NoArgs]
    /\ cs' = [cs EXCEPT ![p] = NoLocals]
    /\ call' = [call EXCEPT ![p] = NoCall]
    /\ req' = [req EXCEPT ![p] = NoCall]
    /\ resp' = [resp EXCEPT ![p] = NoResponse]
    /\ outcome' = [outcome EXCEPT ![p] = NoOutcome]
    /\ result' = [result EXCEPT ![p] = NoOutcome]
    /\ sent' = [sent EXCEPT ![p] = NothingSent]
    /\ probes' = [probes EXCEPT ![p] = <<>>]
    /\ UNCHANGED <<api_key, active>>

Next ==
    \E p \in Procs :
        \/ Request(p)
        \/ CreateSubscriber(p)
        \/ ChangeSubscriberState(p)
        \/ ChangeSubscriptionState(p)
        \/ UpdateSubscriber(p)
        \/ DeleteSubscriber(p)
        \/ DeleteSubscription(p)
        \/ DeleteBalances(p)
        \/ RecordUsage(p)
        \/ ListUsageForSubscriber(p)
        \/ GetOfferById(p)
        \/ GetAvailableOffers(p)
        \/ LookupSubscriber(p)
        \/ GetSubscriber(p)
        \/ CreateSubscription(p)
        \/ ListSubscriptions(p)
        \/ GetSubscription(p)
        \/ CreateBalance(p)
        \/ ListBalances(p)
        \/ CreateAccountHistory(p)
        \/ GetAccountHistory(p)
        \/ UnknownTool(p)
        \/ Respond(p)
        \/ Fail(p)
        \/ Finish(p)

Spec == Init /\ [][Next]_vars

\* two invocations interleaved at their awaits
SpecConc == InitConc /\ [][Next]_vars

----------------------------------------------------------------------------
(* Properties of OCSClient.request.                                        *)

\* the wrapper has finished the call of invocation p: resp[p] is what httpx
\* produced and outcome[p] what request() made of it
Handled(p) == outcome[p].kind # "none"

\* httpx produced a response with a status in the given set
Answered(p, S) ==
    Handled(p) /\ resp[p].kind = "response" /\ resp[p].status_code \in S

ErrorStatuses == {n \in Statuses : n >= 400}
BodyStatuses == {n \in Statuses : n < 400 /\ n # 204}

\* the body is a JSON object with a "message" field
HasMessage(text) ==
    /\ Json(text).ok
    /\ Json(text).value.type = "dict"
    /\ "message" \in DOMAIN Json(text).value.val

\* the body is a JSON object
IsObject(text) == Json(text).ok /\ Json(text).value.type = "dict"

\* request() raised an OCSAPIError with this status and message
RaisedApiError(p, status, message) ==
    /\ outcome[p].kind = "raise"
    /\ outcome[p].exc.class = "OCSAPIError"
    /\ outcome[p].exc.status_code = status
    /\ outcome[p].exc.message = message

\* C1 as stated: for a status >= 400, request() raises an OCSAPIError with the
\* upstream status whose message is the body's `message` field when present and
\* the raw response text otherwise.
C1_MessageOrRawText ==
    \A p \in Procs :
        Answered(p, ErrorStatuses) =>
            RaisedApiError(p, resp[p].status_code,
                IF HasMessage(resp[p].text)
                THEN Json(resp[p].text).value.val["message"]
                ELSE PyStr(resp[p].text))

\* C1 amended: for a status >= 400, request() raises an OCSAPIError with the
\* upstream status whose message is the body's `message` field when present;
\* the reason phrase when the body is a JSON object without that field; and
\* otherwise the raw text, or the reason phrase when the text is empty.
C1_MessageOrFallback ==
    \A p \in Procs :
        Answered(p, ErrorStatuses) =>
            RaisedApiError(p, resp[p].status_code,
                IF HasMessage(resp[p].text)
                THEN Json(resp[p].text).value.val["message"]
                ELSE IF IsObject(resp[p].text) \/ resp[p].text = ""
                THEN PyStr(resp[p].reason_phrase)
                ELSE PyStr(resp[p].text))

C1_Witness ==
    \E p \in Procs :
        /\ Answered(p, {404})
        /\ resp[p].text = "{\"code\": 17}"
        /\ RaisedApiError(p, 404, PyStr("Not Found"))

\* C2 as stated: for a 2xx/3xx status other than 204, request() returns the
\* parsed JSON body and does not raise.
C2_AlwaysReturnsBody ==
    \A p \in Procs :
        Answered(p, BodyStatuses) =>
            /\ outcome[p].kind = "return"
            /\ Json(resp[p].text).ok
            /\ outcome[p].value = Json(resp[p].text).value

\* C2 amended: for a 2xx/3xx status other than 204, request() returns the
\* parsed body when the body is valid JSON (an object, an array or any other
\* JSON value) and raises an OCSAPIError with status 500 when it is not.
C2_ReturnsBodyOrRaises500 ==
    \A p \in Procs :
        Answered(p, BodyStatuses) =>
            IF Json(resp[p].text).ok
            THEN outcome[p] = Return(Json(resp[p].text).value)
            ELSE /\ outcome[p].kind = "raise"
                 /\ outcome[p].exc.class = "OCSAPIError"
                 /\ outcome[p].exc.status_code = 500

C2_Witness ==
    \E p \in Procs :
        /\ Answered(p, {302})
        /\ resp[p].text = "[\"sub-1\"]"
        /\ outcome[p] = Return(PyList(<<PyStr("sub-1")>>))

\* C3: for a status 204, request() returns None: never an object, never an error.
C3_NoContentReturnsNone ==
    \A p \in Procs :
        Answered(p, {204}) => outcome[p] = Return(PyNone)

C3_Witness ==
    \E p \in Procs :
        /\ Answered(p, {204})
        /\ resp[p].text = ""
        /\ outcome[p] = Return(PyNone)

\* the exceptions of a DNS failure, a refused connection, a timeout
NetworkFailures == {"ConnectError", "ConnectTimeout", "ReadTimeout"}

\* C4: a network-level failure of the call makes request() raise an OCSAPIError
\* with status 503 whose message carries the text of the cause.
C4_NetworkFailureIs503 ==
    \A p \in Procs :
        (Handled(p) /\ resp[p].kind = "raised" /\ resp[p].exc.class \in NetworkFailures) =>
            /\ RaisedApiError(p, 503, PyStr("Service Unavailable: " \o resp[p].exc.text))
            /\ outcome[p].exc.details = PyNone

C4_Witness ==
    \E p \in Procs :
        /\ Handled(p)
        /\ resp[p] = Raised(Error("ReadTimeout", "The read operation timed out"))
        /\ RaisedApiError(p, 503,
                          PyStr("Service Unavailable: The read operation timed out"))

\* an exception was raised in the call or while handling the response that is
\* neither a network failure nor the error of a status >= 400
OtherException(p) ==
    /\ Handled(p)
    /\ \/ resp[p].kind = "raised" /\ resp[p].exc.class \notin NetworkFailures
       \/ Answered(p, BodyStatuses) /\ ~Json(resp[p].text).ok

\* C5 as stated: any such exception makes request() raise an OCSAPIError with
\* status 500.
C5_AnyOtherExceptionIs500 ==
    \A p \in Procs :
        OtherException(p) =>
            /\ outcome[p].kind = "raise"
            /\ outcome[p].exc.class = "OCSAPIError"
            /\ outcome[p].exc.status_code = 500

\* C5 amended: any such exception that derives from Exception makes request()
\* raise an OCSAPIError with status 500; a task cancellation (CancelledError,
\* which derives from BaseException only) is not translated and leaves
\* request() as it is.
C5_OtherExceptionIs500UnlessCancelled ==
    \A p \in Procs :
        OtherException(p) =>
            IF resp[p].kind = "raised" /\ resp[p].exc.class = "CancelledError"
            THEN outcome[p] = Raise(resp[p].exc)
            ELSE /\ outcome[p].kind = "raise"
                 /\ outcome[p].exc.class = "OCSAPIError"
                 /\ outcome[p].exc.status_code = 500

C5_Witness ==
    \E p \in Procs :
        /\ Answered(p, {200})
        /\ resp[p].text = "upstream unavailable"
        /\ outcome[p].kind = "raise"
        /\ outcome[p].exc.class = "OCSAPIError"
        /\ outcome[p].exc.status_code = 500

\* invocation p has a call to request() whose HTTP request has left
Issued(p) == call[p] # NoCall

\* C6 as stated: when the caller supplies a transaction id, the X-Transaction-ID
\* header of the outgoing request is the supplied value.
C6_SuppliedIdForwarded ==
    \A p \in Procs :
        (Issued(p) /\ call[p].transaction_id # PyNone) =>
            req[p].headers["X-Transaction-ID"] = call[p].transaction_id.val

\* C6 amended: when the caller supplies a non-empty transaction id, the
\* X-Transaction-ID header of the outgoing request is the supplied value; an
\* empty string counts as none supplied and a generated id is sent instead.
C6_NonEmptyIdForwarded ==
    \A p \in Procs :
        (Issued(p) /\ call[p].transaction_id # PyNone) =>
            IF call[p].transaction_id.val # ""
            THEN req[p].headers["X-Transaction-ID"] = call[p].transaction_id.val
            ELSE req[p].headers["X-Transaction-ID"] \in UUIDs

C6_Witness ==
    \E p \in Procs :
        /\ Issued(p)
        /\ call[p].transaction_id = PyStr("tx-1")
        /\ req[p].headers["X-Transaction-ID"] = "tx-1"

\* C7: every outgoing request carries an X-API-Key header equal to the
\* configured key and a non-empty X-Transaction-ID header, a generated one
\* when the caller supplied none.
C7_HeadersOnEveryRequest ==
    \A p \in Procs :
        Issued(p) =>
            /\ {"X-API-Key", "X-Transaction-ID"} \subseteq DOMAIN req[p].headers
            /\ req[p].headers["X-API-Key"] = api_key
            /\ req[p].headers["X-Transaction-ID"] # ""
            /\ call[p].transaction_id = PyNone =>
                   req[p].headers["X-Transaction-ID"] \in UUIDs

C7_Witness ==
    \E p \in Procs :
        /\ Issued(p)
        /\ call[p].transaction_id = PyNone
        /\ req[p].headers["X-Transaction-ID"] \in UUIDs
        /\ req[p].headers["X-API-Key"] = api_key

----------------------------------------------------------------------------
(* Properties of create_subscriber.                                        *)

Creating(p) == tool[p] = "create_subscriber"

\* some / the first / every lookup probe so far reported this verdict
SomeProbe(p, v) == \E i \in 1..Len(probes[p]) : probes[p][i] = v
FirstProbe(p, v) == Len(probes[p]) >= 1 /\ probes[p][1] = v
EveryProbe(p, v) ==
    Len(probes[p]) >= 1 /\ \A i \in 1..Len(probes[p]) : probes[p][i] = v

\* C8: once a lookup probe has reported "Entity not found", the invocation
\* goes on to create: by its end it has issued exactly one POST /subscribers,
\* whose body has the accepted candidate as msisdn and the imsi built from
\* it, and its result is the wrapper's result for that POST.
C8_NotFoundLeadsToCreate ==
    \A p \in Procs :
        (Creating(p) /\ SomeProbe(p, "not_found") /\ pc[p] = "done") =>
            /\ sent[p].post = 1
            /\ call[p].method = "POST"
            /\ call[p].endpoint = "/subscribers"
            /\ call[p].json.val["msisdn"] = cs[p].msisdn
            /\ call[p].json.val["imsi"] = Imsi(cs[p].msisdn)
            /\ result[p] = outcome[p]

\* C9: if the first lookup probe reports "Entity not found", the invocation
\* makes exactly one GET /subscribers/lookup in all.
C9_FirstNotFoundOneLookup ==
    \A p \in Procs :
        (Creating(p) /\ FirstProbe(p, "not_found")) => sent[p].lookup = 1

C9_Witness ==
    \E p \in Procs :
        /\ Creating(p)
        /\ pc[p] = "done"
        /\ probes[p] = <<"not_found">>
        /\ sent[p].lookup = 1

\* C10: if every lookup probe reports an existing number, the invocation ends
\* by failing after exactly 10 lookups, and it issues no POST /subscribers.
C10_AllExistFailsAtCap ==
    \A p \in Procs :
        (Creating(p) /\ EveryProbe(p, "exists")) =>
            /\ sent[p].post = 0
            /\ sent[p].lookup <= 10
            /\ Len(probes[p]) = 10 => pc[p] = "done"
            /\ pc[p] = "done" =>
                   /\ sent[p].lookup = 10
                   /\ Len(probes[p]) = 10
                   /\ result[p].kind = "raise"
                   /\ result[p].exc.class = "Exception"

C10_Witness ==
    \E p \in Procs :
        /\ Creating(p)
        /\ pc[p] = "done"
        /\ EveryProbe(p, "exists")
        /\ Len(probes[p]) = 10
        /\ sent[p] = [lookup |-> 10, post |-> 0, other |-> 0]
        /\ result[p] = Raise(Error("Exception",
                                   "Failed to generate unique MSISDN after 10 attempts"))

----------------------------------------------------------------------------
(* Properties of the tool functions.                                       *)

\* C11: create_subscriber submits an MSISDN that is unique: once a candidate
\* has been accepted (its probe reported "Entity not found"), the creation
\* request is issued with that MSISDN, and no interleaved invocation issues a
\* creation request with the same MSISDN.
C11_SubmittedMsisdnUnique ==
    \A p \in Procs :
        (Creating(p) /\ cs[p].msisdn # PyNone) =>
            /\ sent[p].post = 1
            /\ call[p].json.val["msisdn"] = cs[p].msisdn
            /\ \A q \in Procs \ {p} :
                   (Creating(q) /\ sent[q].post = 1) =>
                       call[q].json.val["msisdn"] # cs[p].msisdn

\* the wrapper call of invocation p has failed
RequestFailed(p) == outcome[p].kind = "raise"

\* C12: no retries.  Once a request of an invocation has failed, the
\* invocation is over with that failure as its result and the failed request
\* is the last it issued: a single-request tool has issued one request, and
\* create_subscriber, whose failed probe (a failed request, or an answer that
\* is not an object) is its last, has issued as many lookups as it has probe
\* reports and no POST /subscribers.
C12_NoRetryAfterFailure ==
    \A p \in Procs :
        /\ RequestFailed(p) =>
               /\ pc[p] = "done"
               /\ result[p] = outcome[p]
               /\ sent[p].lookup + sent[p].post + sent[p].other = 1 + Len(probes[p])
                      - (IF Creating(p) THEN 1 ELSE 0)
        /\ (Creating(p) /\ SomeProbe(p, "error")) =>
               /\ pc[p] = "done"
               /\ result[p].kind = "raise"
               /\ probes[p][Len(probes[p])] = "error"
               /\ \A i \in 1..(Len(probes[p]) - 1) : probes[p][i] = "exists"
               /\ sent[p].lookup = Len(probes[p])
               /\ sent[p].post = 0

C12_Witness ==
    \E p \in Procs :
        /\ Creating(p)
        /\ probes[p] = <<"exists", "error">>
        /\ Answered(p, {404})
        /\ pc[p] = "done"
        /\ sent[p] = [lookup |-> 2, post |-> 0, other |-> 0]
        /\ result[p] = outcome[p]
        /\ result[p].kind = "raise"


\* invocation p is a run of tool function t
Running(p, t) == tool[p] = t

\* invocation p has ended without any request having left
EndedWithoutRequest(p) ==
    /\ pc[p] = "done"
    /\ sent[p] = NothingSent
    /\ call[p] = NoCall
    /\ req[p] = NoCall

\* the states change_subscriber_state accepts: the member names of
\* SubscriberState, spelt exactly
ValidSubscriberStates ==
    {"ACTIVE", "SUSPENDED", "DEACTIVATED", "TERMINATED", "PRE_PROVISIONED"}

ValidSubscriptionActions == {"active", "suspend", "cancelled", "renew"}

\* C14: for every action string that is not a valid subscription action (in
\* any letter case), change_subscription_state returns an error object naming
\* the valid actions instead of failing, and issues no network request.
C14_InvalidActionInlineError ==
    \A p \in Procs :
        (Running(p, "change_subscription_state")
            /\ Lower(args[p].action) \notin ValidSubscriptionActions) =>
            /\ EndedWithoutRequest(p)
            /\ result[p] =
                   Return(PyDict([error |-> PyStr(
                       "Invalid action '" \o args[p].action \o "'. Must be one of: "
                       \o "active, suspend, cancelled, renew")]))

C14_Witness ==
    \E p \in Procs :
        /\ Running(p, "change_subscription_state")
        /\ args[p].action = "cancel"
        /\ EndedWithoutRequest(p)
        /\ result[p].kind = "return"
        /\ result[p].value.val["error"] =
               PyStr("Invalid action 'cancel'. Must be one of: "
                     \o "active, suspend, cancelled, renew")

\* e is a {fieldName, fieldValue} pair: an object with a string fieldName and
\* a fieldValue
IsPatchPair(e) ==
    /\ e.type = "dict"
    /\ "fieldName" \in DOMAIN e.val
    /\ "fieldValue" \in DOMAIN e.val
    /\ e.val["fieldName"].type = "str"

\* the patch list of invocation p has an element that is not such a pair
HasMalformedPatch(p) ==
    \E i \in 1..Len(args[p].patches) : ~IsPatchPair(args[p].patches[i])

\* C15: when any element of update_subscriber's patch list is not a
\* {fieldName, fieldValue} pair, the invocation ends by raising the
\* validation error and no PATCH request, nor any other, is issued.
C15_MalformedPatchNoRequest ==
    \A p \in Procs :
        (Running(p, "update_subscriber") /\ HasMalformedPatch(p)) =>
            /\ EndedWithoutRequest(p)
            /\ result[p].kind = "raise"
            /\ result[p].exc.class \in {"ValidationError", "TypeError"}

C15_Witness ==
    \E p \in Procs :
        /\ Running(p, "update_subscriber")
        /\ Len(args[p].patches) = 2
        /\ IsPatchPair(args[p].patches[1])
        /\ args[p].patches[2] = PyDict([fieldName |-> PyStr("languageId")])
        /\ EndedWithoutRequest(p)
        /\ result[p] = Raise(Error("ValidationError",
                                   "validation error for PatchOperation"))

DeleteTools == {"delete_subscriber", "delete_subscription", "delete_balances"}

\* the awaited wrapper call of invocation p returned (did not raise) and the
\* tool function has ended
WrapperReturned(p) == pc[p] = "done" /\ outcome[p].kind = "return"

UsageTools == {"record_usage", "list_usage_for_subscriber"}

\* C17: record_usage and list_usage_for_subscriber return the wrapper's
\* result unchanged for every successful wrapper outcome (an object, an array
\* or no value); a successful wrapper call never becomes a tool failure.
C17_SuccessReturnedUnchanged ==
    \A p \in Procs :
        (tool[p] \in UsageTools /\ WrapperReturned(p)) => result[p] = outcome[p]

\* the offerId values of the catalog
CatalogIds == {offers_catalog[i].val["offerId"].val : i \in 1..Len(offers_catalog)}

\* the tool returned the JSON text of v
ReturnedJson(p, v) == pc[p] = "done" /\ result[p] = Return(JsonDumps(v))

\* C18: for every offerId outside the catalog, get_offer_by_id returns an
\* error object whose "error" is "Offer not found" and which lists the ids of
\* the catalog; for every offerId in the catalog it returns the catalog's
\* record with that offerId.
C18_OfferOrNotFound ==
    \A p \in Procs :
        Running(p, "get_offer_by_id") =>
            /\ pc[p] = "done"
            /\ result[p].kind = "return"
            /\ "json" \in DOMAIN result[p].value
            /\ LET v == result[p].value.json.val
                   offerId == args[p].offerId
               IN  IF offerId \in CatalogIds
                   THEN /\ "offerId" \in DOMAIN v
                        /\ v["offerId"] = PyStr(offerId)
                        /\ \E i \in 1..Len(offers_catalog) :
                               result[p].value.json = offers_catalog[i]
                   ELSE /\ {"error", "availableOfferIds"} \subseteq DOMAIN v
                        /\ v["error"] = PyStr("Offer not found")
                        /\ {v["availableOfferIds"].val[i].val :
                               i \in 1..Len(v["availableOfferIds"].val)} = CatalogIds
                        /\ Len(v["availableOfferIds"].val) = Cardinality(CatalogIds)
            /\ EndedWithoutRequest(p)

C18_Witness ==
    \E p \in Procs :
        /\ Running(p, "get_offer_by_id")
        /\ args[p].offerId = "9999"
        /\ pc[p] = "done"
        /\ result[p].value.json.val["error"] = PyStr("Offer not found")
        /\ Len(result[p].value.json.val["availableOfferIds"].val) = 12

\* the unit and amount of a balance entry
UnitAmount(b) == <<b.val["unit"].val, b.val["amount"].lit>>

\* C19: get_offer_by_id("1000") returns the record whose offerName is
\* "Basic prepaid plan" and whose balances are exactly three, in the order
\* SECONDS/3600, EVENTS/1000, BYTES/10737418240.
C19_Offer1000Record ==
    \A p \in Procs :
        (Running(p, "get_offer_by_id") /\ args[p].offerId = "1000") =>
            /\ pc[p] = "done"
            /\ result[p].kind = "return"
            /\ LET v == result[p].value.json.val
               IN  /\ v["offerId"] = PyStr("1000")
                   /\ v["offerName"] = PyStr("Basic prepaid plan")
                   /\ Len(v["balances"].val) = 3
                   /\ [i \in 1..3 |-> UnitAmount(v["balances"].val[i])] =
                          << <<"SECONDS", "3600">>, <<"EVENTS", "1000">>,
                             <<"BYTES", "10737418240">> >>

C19_Witness ==
    \E p \in Procs :
        /\ Running(p, "get_offer_by_id")
        /\ args[p].offerId = "1000"
        /\ ReturnedJson(p, Offer1000)
        /\ UnitAmount(Offer1000.val["balances"].val[3]) = <<"BYTES", "10737418240">>

----------------------------------------------------------------------------
(* Invocations sharing the client.                                         *)

\* everything invocation p holds
Slot(p) ==
    <<pc[p], tool[p], args[p], cs[p], call[p], req[p], resp[p], outcome[p],
      result[p], sent[p], probes[p]>>

\* the transaction id and payload the arguments of invocation p call for
OwnCall(p) ==
    /\ "transaction_id" \in DOMAIN args[p] =>
           IF args[p].transaction_id = PyNone
           THEN \/ call[p].transaction_id = PyNone
                \/ call[p].transaction_id.val \in UUIDs
           ELSE call[p].transaction_id = args[p].transaction_id
    /\ Creating(p) =>
           /\ call[p].transaction_id = cs[p].transaction_id
           /\ call[p].params = PyDict([msisdn |-> cs[p].candidate_msisdn])
    /\ Running(p, "update_subscriber") =>
           call[p].json = ValidatedPatches(args[p].patches)
    /\ Running(p, "record_usage") => call[p].json = args[p].usage
    /\ Running(p, "change_subscriber_state") =>
           call[p].params = PyDict([state |-> PyStr(args[p].state)])

\* the request of invocation p is the one its own call asked for
OwnRequest(p) ==
    /\ req[p].method = call[p].method
    /\ req[p].endpoint = call[p].endpoint
    /\ req[p].params = call[p].params
    /\ req[p].json = call[p].json
    /\ IF Falsy(call[p].transaction_id)
       THEN req[p].headers["X-Transaction-ID"] \in UUIDs
       ELSE req[p].headers["X-Transaction-ID"] = call[p].transaction_id.val

\* the outcome of invocation p follows from the answer to its own request
OwnOutcome(p) ==
    /\ outcome[p] = RequestOutcome(resp[p])
    /\ (pc[p] = "done" /\ ~Creating(p)) =>
           result[p] = ToolReturn(tool[p], args[p], outcome[p])

\* C20: for any interleaving of invocations sharing the client, every
\* outgoing request carries the transaction id and payload of its own
\* invocation, every outcome follows from the invocation's own arguments and
\* the answer to its own request, and a step of one invocation leaves
\* everything the other holds unchanged.
C20_InvocationsIsolated ==
    /\ [](\A p \in Procs :
            /\ Issued(p) => OwnCall(p) /\ OwnRequest(p)
            /\ Handled(p) => OwnOutcome(p))
    /\ [][\E p \in Procs : \A q \in Procs \ {p} : Slot(q)' = Slot(q)]_vars

C20_Witness ==
    /\ Running(1, "update_subscriber")
    /\ Running(2, "create_subscriber")
    /\ pc[1] = "await_request"
    /\ pc[2] = "await_lookup"
    /\ sent[2].lookup = 2
    /\ req[1].headers["X-Transaction-ID"] = "tx-1"
    /\ req[2].headers["X-Transaction-ID"] = "uuid-2"
    /\ req[1].json = PyList(<<PyDict([fieldName |-> PyStr("languageId"),
                                      fieldValue |-> PyNone])>>)
    /\ req[2].json = PyNone

----------------------------------------------------------------------------
(* The tool surface.                                                       *)

\* the tool function, if any, that p's invocation runs
Reached(p) == tool[p] \notin {"none", "request"}

\* p asked the host for a tool by name and no function answered to it
Unanswered(p) == pc[p] = "done" /\ tool[p] = "none" /\ "name" \in DOMAIN args[p]

\* the twenty names the tools are documented under
DocumentedTools ==
    { "create_subscriber", "get_subscriber", "lookup_subscriber", "update_subscriber",
      "delete_subscriber", "change_subscriber_state", "create_subscription",
      "list_subscriptions", "get_subscription", "change_subscription_state",
      "delete_subscription", "create_balance", "list_balances", "delete_balances",
      "create_account_history", "get_account_history", "get_available_offers",
      "get_offer_by_id", "record_usage", "list_usage_for_subscriber" }

\* C21: the tools registered on the server are exactly the twenty documented
\* names: there are twenty registrations, every tool function an invocation
\* runs bears one of the names, and a name outside them is answered by no tool
C21_RegisteredExactlyTwenty ==
    /\ RegisteredTools = DocumentedTools
    /\ Len(add_tool_calls) = 20
    /\ Cardinality(RegisteredTools) = 20
    /\ \A p \in Procs :
        /\ Reached(p) => tool[p] \in DocumentedTools
        /\ Unanswered(p) => args[p].name \notin DocumentedTools

\* the last tool registered has run to its end
C21_Witness ==
    \E p \in Procs : pc[p] = "done" /\ tool[p] = add_tool_calls[Len(add_tool_calls)]

\* the names the integration test calls
TestedTools == {test_calls[i] : i \in 1..Len(test_calls)}

\* C22: every tool the integration test invokes by name is registered on the
\* server, so that each of its calls reaches a tool function
C22_TestedToolsRegistered ==
    /\ TestedTools \subseteq RegisteredTools
    /\ \A p \in Procs : Unanswered(p) => args[p].name \notin TestedTools

----------------------------------------------------------------------------
(* The paths requested.                                                    *)

\* the instances, over the identifiers in use, of the path templates
\* /subscribers, /subscribers/{id}, /subscribers/lookup,
\* /subscribers/{id}/subscriptions, /subscriptions/{id},
\* /subscriptions/{id}/balances, /accountHistory, /accountHistory/{id},
\* /usage and /subscribers/{id}/usage
ListedPaths ==
    {"/subscribers", "/subscribers/lookup", "/accountHistory", "/usage"}
    \cup {"/subscribers/" \o id : id \in SubscriberIds}
    \cup {"/subscribers/" \o id \o "/subscriptions" : id \in SubscriberIds}
    \cup {"/subscriptions/" \o id : id \in SubscriptionIds}
    \cup {"/subscriptions/" \o id \o "/balances" : id \in SubscriptionIds}
    \cup {"/accountHistory/" \o id : id \in InteractionIds}
    \cup {"/subscribers/" \o id \o "/usage" : id \in SubscriberIds}

\* the instances of /subscribers/{id}/state and of
\* /subscriptions/{id}/activate, /suspend, /cancel and /renew
StateChangePaths ==
    {"/subscribers/" \o id \o "/state" : id \in SubscriberIds}
    \cup {"/subscriptions/" \o id \o verb :
            id \in SubscriptionIds, verb \in {"/activate", "/suspend", "/cancel", "/renew"}}

\* a tool function of p has issued a request
ToolRequested(p) == Reached(p) /\ req[p] # NoCall

\* C23 as stated: every request a tool issues targets a path matching one of
\* the ten listed templates.
C23_PathsFromList ==
    \A p \in Procs : ToolRequested(p) => req[p].endpoint \in ListedPaths

\* C23, amended: every request a tool issues targets a path matching one of
\* the ten listed templates or one of the state-change templates
\* /subscribers/{id}/state and /subscriptions/{id}/activate|suspend|cancel|renew;
\* the two state-change tools use only the latter, every other tool only the
\* former.
C23_PathsFromListOrStateChange ==
    \A p \in Procs :
        ToolRequested(p) =>
            /\ req[p].endpoint \in ListedPaths \cup StateChangePaths
            /\ req[p].endpoint \in StateChangePaths
                 <=> tool[p] \in {"change_subscriber_state", "change_subscription_state"}

\* change_subscriber_state has been answered on /subscribers/sub-1/state
C23_Witness ==
    \E p \in Procs :
        /\ Running(p, "change_subscriber_state")
        /\ pc[p] = "done"
        /\ Handled(p)
        /\ req[p].endpoint = "/subscribers/sub-1/state"

\* the path each spelling of a valid action is to be posted to
ActionPath(subscriptionId) ==
    [action \in {"active", "ACTIVE", "suspend", "Suspend", "cancelled", "renew"} |->
        "/subscriptions/" \o subscriptionId \o
            (CASE action \in {"active", "ACTIVE"} -> "/activate"
               [] action \in {"suspend", "Suspend"} -> "/suspend"
               [] action = "cancelled" -> "/cancel"
               [] action = "renew" -> "/renew")]

\* C24: for every action that is, whatever its letter case, one of active,
\* suspend, cancelled and renew, change_subscription_state issues exactly one
\* request, a POST to /subscriptions/{id}/activate, /suspend, /cancel or /renew
\* respectively; it returns the wrapper's result when the call succeeds and
\* fails with the wrapper's exception when it fails, never with an inline
\* error object of its own.
C24_ValidActionPostsOnce ==
    \A p \in Procs :
        (Running(p, "change_subscription_state")
         /\ args[p].action \in DOMAIN ActionPath(args[p].subscriptionId)) =>
            /\ sent[p] = [lookup |-> 0, post |-> 0, other |-> 1]
            /\ req[p] # NoCall
            /\ req[p].method = "POST"
            /\ req[p].endpoint = ActionPath(args[p].subscriptionId)[args[p].action]
            /\ pc[p] = "done" => Handled(p) /\ result[p] = outcome[p]

\* "cancelled" has been posted to /cancel and the call has failed
C24_Witness ==
    \E p \in Procs :
        /\ Running(p, "change_subscription_state")
        /\ args[p].action = "cancelled"
        /\ pc[p] = "done"
        /\ result[p].kind = "raise"
        /\ req[p].endpoint = "/subscriptions/s-1/cancel"

----------------------------------------------------------------------------
(* The creation sequence.                                                  *)

\* the lookups and the POST of p's create_subscriber so far are in order:
\* at most one POST, only after a probe reporting "Entity not found", at most
\* max_attempts lookups, and the POST, once issued, is the last request
CreationOrdered(p) ==
    /\ sent[p].post <= 1
    /\ sent[p].post >= 1 => SomeProbe(p, "not_found")
    /\ sent[p].lookup <= 10
    /\ sent[p].post >= 1 => call[p].endpoint = "/subscribers"

\* the wrapper returned a lookup of p's a result other than "Entity not found"
\* and the invocation ended on it
EndedOnOtherResult(p) ==
    /\ pc[p] = "done"
    /\ call[p] # NoCall
    /\ call[p].endpoint = "/subscribers/lookup"
    /\ outcome[p].kind = "return"
    /\ outcome[p].value # PyDict([ResultCode |-> PyStr("Entity not found")])

\* C25: within one create_subscriber invocation the POST /subscribers is issued
\* at most once and only after some lookup probe returned ResultCode "Entity
\* not found"; any other lookup result counts as "exists" and consumes one
\* attempt, so that an invocation ends on such a result only when it was the
\* tenth lookup, with the error naming the ten attempts; there are never more
\* than ten lookups and never a lookup after the POST.
C25_OtherResultConsumesAttempt ==
    \A p \in Procs :
        Creating(p) =>
            /\ CreationOrdered(p)
            /\ EndedOnOtherResult(p) =>
                /\ sent[p].lookup = 10
                /\ EveryProbe(p, "exists")

----------------------------------------------------------------------------
(* The failures request() surfaces.                                        *)

\* the call of p was cancelled while awaited
Cancelled(p) == resp[p].kind = "raised" /\ resp[p].exc.class = "CancelledError"

\* C26: every failure request() surfaces, task cancellation apart, is an
\* OCSAPIError whose status_code is the upstream status (>= 400), 503 or 500;
\* the OCSAPIError made for an upstream status >= 400 is never wrapped again:
\* it reaches the caller with the upstream's status, and with the message and
\* details taken from the upstream's response.
C26_FailuresAreApiErrors ==
    \A p \in Procs :
        (Handled(p) /\ outcome[p].kind = "raise" /\ ~Cancelled(p)) =>
            /\ outcome[p].exc.class = "OCSAPIError"
            /\ IF Answered(p, {n \in Statuses : n >= 400})
               THEN /\ outcome[p].exc.status_code = resp[p].status_code
                    /\ outcome[p].exc.message = ErrorMessage(resp[p])
                    /\ outcome[p].exc.details = ErrorDetails(resp[p])
               ELSE outcome[p].exc.status_code \in {503, 500}

\* a 404 with message and details has been surfaced
C26_Witness ==
    \E p \in Procs :
        /\ Answered(p, {404})
        /\ outcome[p].kind = "raise"
        /\ outcome[p].exc.message = PyStr("Invalid request")
        /\ outcome[p].exc.details # PyNone

----------------------------------------------------------------------------
(* The transaction id of a creation.                                       *)

\* the X-Transaction-ID header of the request p issued last
SentTransactionId(p) == req[p].headers["X-Transaction-ID"]

\* p's create_subscriber has a request out or answered
CreatingRequested(p) == Creating(p) /\ req[p] # NoCall

\* from one request of p's create_subscriber to the next the header is kept
SameTransactionId(p) ==
    (CreatingRequested(p) /\ CreatingRequested(p)') =>
        SentTransactionId(p)' = SentTransactionId(p)

\* C27: all requests of one create_subscriber invocation, every lookup probe
\* and the creation POST, carry the same X-Transaction-ID: the caller-supplied
\* one, or else one generated once at the start of the invocation.
C27_OneTransactionId ==
    /\ [](\A p \in Procs :
            (CreatingRequested(p) /\ args[p].transaction_id # PyNone) =>
                SentTransactionId(p) = args[p].transaction_id.val)
    /\ [][\A p \in Procs : SameTransactionId(p)]_vars

----------------------------------------------------------------------------
(* The numbers create_subscriber generates.                                *)

\* s is a string of between lo and hi decimal digits
DigitString(s, lo, hi) ==
    /\ "digits" \in DOMAIN s
    /\ Len(s.digits) \in lo..hi
    /\ \A i \in 1..Len(s.digits) : s.digits[i] \in 0..9

\* s is the prefix followed by the seven digits of a number in 1000000..9999999
PrefixedSeven(s, prefix) ==
    /\ DigitString(s, Len(prefix) + 7, Len(prefix) + 7)
    /\ SubSeq(s.digits, 1, Len(prefix)) = prefix
    /\ s.digits[Len(prefix) + 1] \in 1..9

\* p's create_subscriber has accepted a candidate and built subscriber_data
Accepted(p) == Creating(p) /\ cs[p].subscriber_data # PyNone

\* C28: every candidate MSISDN is the 12-digit string "43660" followed by a
\* 7-digit number in 1000000..9999999, and it is what the lookup probe asks
\* for; the IMSI built for the accepted candidate is the 15-digit string
\* "23205660" followed by the same seven digits; both satisfy the Subscriber
\* model's patterns (11 to 15 digits for msisdn, 12 to 15 for imsi).
C28_GeneratedNumbers ==
    \A p \in Procs :
        Creating(p) =>
            /\ PrefixedSeven(cs[p].candidate_msisdn, <<4, 3, 6, 6, 0>>)
            /\ DigitString(cs[p].candidate_msisdn, 11, 15)
            /\ sent[p].post = 0 =>
                 call[p].params = PyDict([msisdn |-> cs[p].candidate_msisdn])
            /\ Accepted(p) =>
                LET msisdn == cs[p].subscriber_data.msisdn
                    imsi == cs[p].subscriber_data.imsi
                IN  /\ msisdn = cs[p].candidate_msisdn
                    /\ PrefixedSeven(imsi, <<2, 3, 2, 0, 5, 6, 6, 0>>)
                    /\ Len(imsi.digits) = 15
                    /\ SubSeq(imsi.digits, 9, 15) = SubSeq(msisdn.digits, 6, 12)
                    /\ DigitString(imsi, 12, 15)

\* the largest candidate has been accepted
C28_Witness ==
    \E p \in Procs :
        /\ Accepted(p)
        /\ cs[p].subscriber_data.msisdn.digits = <<4, 3, 6, 6, 0, 9, 9, 9, 9, 9, 9, 9>>
        /\ cs[p].subscriber_data.imsi.digits
             = <<2, 3, 2, 0, 5, 6, 6, 0, 9, 9, 9, 9, 9, 9, 9>>

\* the billing-cycle fields of the subscriber_data p built
BillingCycleFields(p) ==
    DOMAIN cs[p].subscriber_data.billing.val \cap {"billcycleDay", "billingCycle"}

\* C29: create_subscriber adds the billing-cycle fields if and only if
\* subscriber_type is exactly "POSTPAID"; billingCycle is then "MONTHLY" and
\* billcycleDay is the current day of the month when that is 1..28 and 1 when
\* it is 29..31, so that it always lies within 1..28.
C29_BillingCycleForPostpaid ==
    \A p \in Procs :
        Accepted(p) =>
            LET billing == cs[p].subscriber_data.billing.val
                day == cs[p].current_day
            IN  IF args[p].subscriber_type = "POSTPAID"
                THEN /\ BillingCycleFields(p) = {"billcycleDay", "billingCycle"}
                     /\ billing["billingCycle"] = PyStr("MONTHLY")
                     /\ day \in 1..28 => billing["billcycleDay"] = PyInt(day)
                     /\ day \in 29..31 => billing["billcycleDay"] = PyInt(1)
                     /\ billing["billcycleDay"].val \in 1..28
                ELSE BillingCycleFields(p) = {}

\* a POSTPAID subscriber has been built on the 31st
C29_Witness ==
    \E p \in Procs :
        /\ Accepted(p)
        /\ args[p].subscriber_type = "POSTPAID"
        /\ cs[p].current_day = 31
        /\ cs[p].subscriber_data.billing.val["billcycleDay"] = PyInt(1)

\* a subscriber of type "postpaid" has been built without the fields
C29_WitnessOtherSpelling ==
    \E p \in Procs :
        /\ Accepted(p)
        /\ args[p].subscriber_type = "postpaid"
        /\ BillingCycleFields(p) = {}

----------------------------------------------------------------------------
(* The consistency of the offer catalog.                                   *)

\* the offerId of the i-th record of the catalog
CatalogId(i) == offers_catalog[i].val["offerId"].val

\* the ids get_offer_by_id lists for an unknown offerId
ListedOfferIds == {availableOfferIds[i] : i \in 1..Len(availableOfferIds)}

\* C30: the offer catalog is self-consistent.  Its offerIds are pairwise
\* distinct; the availableOfferIds written out in get_offer_by_id are exactly
\* the catalog's ids; get_available_offers returns the catalog, and for every
\* record of it get_offer_by_id of the record's offerId returns that same
\* record; each of the two tools returns the same result whenever it is
\* called with the same argument.
C30_CatalogConsistent ==
    /\ \A i, j \in 1..Len(offers_catalog) : CatalogId(i) = CatalogId(j) => i = j
    /\ ListedOfferIds = {CatalogId(i) : i \in 1..Len(offers_catalog)}
    /\ Len(availableOfferIds) = Len(offers_catalog)
    /\ \A p \in Procs :
        /\ Running(p, "get_available_offers") =>
             ReturnedJson(p, PyList(offers_catalog))
        /\ Running(p, "get_offer_by_id") =>
             \A i \in 1..Len(offers_catalog) :
                CatalogId(i) = args[p].offerId => ReturnedJson(p, offers_catalog[i])
    /\ \A p, q \in Procs :
        (tool[p] = tool[q] /\ args[p] = args[q] /\ pc[p] = "done" /\ pc[q] = "done"
         /\ tool[p] \in {"get_available_offers", "get_offer_by_id"}) =>
            result[p] = result[q]

\* get_available_offers has returned the twelve offers, the last being 1041
C30_Witness ==
    \E p \in Procs :
        /\ Running(p, "get_available_offers")
        /\ pc[p] = "done"
        /\ result[p].kind = "return"
        /\ Len(result[p].value.json.val) = 12
        /\ result[p].value.json.val[12].val["offerId"] = PyStr("1041")

====
